---- MODULE Spec2Model ----
\* pawsync: signed-state OAuth (authorization-start, callback), connections
\* endpoint and activity-mirror pipeline, modelled as a state machine.
\*
\* Strings are sequences of character codes (ASCII, 0..127), so that the
\* base64url transport, the '.' split and the JSON text of the state token are
\* computed the way the handlers compute them.
EXTENDS Integers, Sequences, FiniteSets, TLC

\* ---------------------------------------------------------------------------
\* Bounds
\* ---------------------------------------------------------------------------
MaxTicks == 2          \* number of clock advances in a behaviour
MaxIssued == 2         \* state tokens issued in a behaviour
MaxGrants == 4         \* credential pairs the provider issues in a behaviour
MaxCompareLen == 3     \* bytes of an array given to constantTimeEqual

\* ---------------------------------------------------------------------------
\* String literals of the source
\* ---------------------------------------------------------------------------
HUMAN == <<72, 85, 77, 65, 78>>                       \* "HUMAN"
PET == <<80, 69, 84>>                                 \* "PET"
k_userId == <<117, 115, 101, 114, 73, 100>>           \* "userId"
k_role == <<114, 111, 108, 101>>                      \* "role"
k_exp == <<101, 120, 112>>                            \* "exp"
k_nonce == <<110, 111, 110, 99, 101>>                 \* "nonce"
k_codeVerifier == <<99, 111, 100, 101, 86, 101, 114, 105, 102, 105, 101, 114>>  \* "codeVerifier"
DOT == 46                                             \* '.'
QUOTE == 34                                           \* '"'
BACKSLASH == 92                                       \* '\'
PAD == 61                                             \* '='

\* ---------------------------------------------------------------------------
\* JavaScript values and exceptions
\* ---------------------------------------------------------------------------
\* A JS value of the kinds the handlers meet: string, number, undefined.
JsStr(s) == [t |-> "str", s |-> s, n |-> 0]
JsNum(n) == [t |-> "num", s |-> <<>>, n |-> n]
Undefined == [t |-> "undef", s |-> <<>>, n |-> 0]

\* Result of an operation that may throw.
Ok(v) == [ok |-> TRUE, v |-> v]
Throw == [ok |-> FALSE, v |-> <<>>]

\* JS truthiness of a string-or-undefined (used by `!x` tests).
Truthy(v) == \/ v.t = "str" /\ Len(v.s) > 0
             \/ v.t = "num" /\ v.n # 0

Pow2(k) == 2 ^ k

RECURSIVE BitXor(_, _)
BitXor(a, b) ==
    IF a = b THEN 0
    ELSE IF a = 0 THEN b
    ELSE IF b = 0 THEN a
    ELSE (((a % 2) + (b % 2)) % 2) + 2 * BitXor(a \div 2, b \div 2)

RECURSIVE BitOr(_, _)
BitOr(a, b) ==
    IF a = 0 THEN b
    ELSE IF b = 0 THEN a
    ELSE (IF (a % 2) + (b % 2) > 0 THEN 1 ELSE 0) + 2 * BitOr(a \div 2, b \div 2)

\* ---------------------------------------------------------------------------
\* base64 / base64url
\* ---------------------------------------------------------------------------
\* The base64 alphabet: value 0..63 -> character code.
B64Char(v) ==
    IF v < 26 THEN 65 + v
    ELSE IF v < 52 THEN 97 + (v - 26)
    ELSE IF v < 62 THEN 48 + (v - 52)
    ELSE IF v = 62 THEN 43 ELSE 47

IsB64Char(c) ==
    \/ c \in 65..90 \/ c \in 97..122 \/ c \in 48..57 \/ c = 43 \/ c = 47

B64Val(c) ==
    IF c \in 65..90 THEN c - 65
    ELSE IF c \in 97..122 THEN c - 97 + 26
    ELSE IF c \in 48..57 THEN c - 48 + 52
    ELSE IF c = 43 THEN 62 ELSE 63

\* btoa over the binary string of `data`: 3 bytes -> 4 characters, '=' padded.
btoa(data) ==
    LET n == Len(data)
        byte(i) == IF i <= n THEN data[i] ELSE 0
        chars == (n * 8 + 5) \div 6
        sextet(k) == LET o == 6 * (k - 1)
                         i == (o \div 8) + 1
                         w == byte(i) * 256 + byte(i + 1)
                     IN  (w \div Pow2(10 - (o % 8))) % 64
    IN  [k \in 1..(4 * ((n + 2) \div 3)) |->
            IF k <= chars THEN B64Char(sextet(k)) ELSE PAD]

\* atob: forgiving-base64 decode; throws on a bad character or length.
atob(str) ==
    LET len == Len(str)
        strip == IF len % 4 = 0 /\ len >= 2 /\ str[len] = PAD
                 THEN (IF str[len - 1] = PAD THEN 2 ELSE 1)
                 ELSE 0
        L == len - strip
        val(k) == IF k <= L THEN B64Val(str[k]) ELSE 0
        m == (L * 6) \div 8
        byte(j) == LET o == 8 * (j - 1)
                       s == (o \div 6) + 1
                       v == val(s) * 64 + val(s + 1)
                   IN  (v \div Pow2(4 - (o % 6))) % 256
    IN  IF L % 4 = 1 \/ \E k \in 1..L : ~IsB64Char(str[k])
        THEN Throw
        ELSE Ok([j \in 1..m |-> byte(j)])

ReplaceChar(s, from, to) == [i \in 1..Len(s) |-> IF s[i] = from THEN to ELSE s[i]]

RemoveChar(s, c) == SelectSeq(s, LAMBDA x : x # c)

\* 'while (str.length % 4) str += "="'
PadTo4(s) == s \o [i \in 1..((4 - (Len(s) % 4)) % 4) |-> PAD]

\* TextEncoder / TextDecoder on the ASCII range: one byte per character.
IsAscii(s) == \A i \in 1..Len(s) : s[i] \in 0..127

base64urlEncode(data) ==
    RemoveChar(ReplaceChar(ReplaceChar(btoa(data), 43, 45), 47, 95), PAD)

base64urlDecode(input) ==
    atob(PadTo4(ReplaceChar(ReplaceChar(input, 45, 43), 95, 47)))

\* ---------------------------------------------------------------------------
\* Keyed hash
\* ---------------------------------------------------------------------------
\* HMAC-SHA-256 as an ideal keyed hash: a collision-free function of
\* (secret, message). The digest bytes are the pair itself, secret first.
hmacDigest(message, secret) == secret \o <<0>> \o message

hmacSha256(message, secret) == base64urlEncode(hmacDigest(message, secret))

\* result |= a[i] ^ b[i] over the positions lo..hi (the accumulation is
\* associative, so it is computed by halves to keep the evaluation shallow).
RECURSIVE XorAccumulate(_, _, _, _)
XorAccumulate(a, b, lo, hi) ==
    IF lo > hi THEN 0
    ELSE IF lo = hi THEN BitXor(a[lo], b[lo])
    ELSE LET mid == (lo + hi) \div 2
         IN  BitOr(XorAccumulate(a, b, lo, mid), XorAccumulate(a, b, mid + 1, hi))

constantTimeEqual(a, b) ==
    IF Len(a) # Len(b) THEN FALSE
    ELSE XorAccumulate(a, b, 1, Len(a)) = 0

\* ---------------------------------------------------------------------------
\* JSON
\* ---------------------------------------------------------------------------
RECURSIVE Digits(_)
Digits(n) == IF n < 10 THEN <<48 + n>> ELSE Digits(n \div 10) \o <<48 + (n % 10)>>

RECURSIVE EscapeJson(_)
EscapeJson(s) ==
    IF s = <<>> THEN <<>>
    ELSE (IF Head(s) = QUOTE \/ Head(s) = BACKSLASH
          THEN <<BACKSLASH, Head(s)>> ELSE <<Head(s)>>) \o EscapeJson(Tail(s))

QuoteJson(s) == <<QUOTE>> \o EscapeJson(s) \o <<QUOTE>>

ValueJson(v) == IF v.t = "str" THEN QuoteJson(v.s) ELSE Digits(v.n)

\* JSON.stringify of an object given as a sequence of <<key, value>> members
\* in property order; undefined members are left out.
RECURSIVE MembersJson(_)
MembersJson(ms) ==
    IF ms = <<>> THEN <<>>
    ELSE LET m == Head(ms)
             rest == MembersJson(Tail(ms))
         IN  IF m[2].t = "undef" THEN rest
             ELSE QuoteJson(m[1]) \o <<58>> \o ValueJson(m[2])
                  \o (IF rest = <<>> THEN <<>> ELSE <<44>> \o rest)

JSONstringify(ms) == <<123>> \o MembersJson(ms) \o <<125>>

\* Position of the closing quote of the string whose opening quote is at i-1
\* (0 when the text ends first).
RECURSIVE StrEnd(_, _)
StrEnd(s, i) ==
    IF i > Len(s) THEN 0
    ELSE IF s[i] = QUOTE THEN i
    ELSE IF s[i] = BACKSLASH THEN StrEnd(s, i + 2)
    ELSE StrEnd(s, i + 1)

RECURSIVE UnescapeJson(_)
UnescapeJson(s) ==
    IF s = <<>> THEN <<>>
    ELSE IF Head(s) = BACKSLASH /\ Len(s) >= 2
         THEN <<s[2]>> \o UnescapeJson(Tail(Tail(s)))
         ELSE <<Head(s)>> \o UnescapeJson(Tail(s))

IsDigit(c) == c \in 48..57

RECURSIVE NumEnd(_, _)
NumEnd(s, i) == IF i <= Len(s) /\ IsDigit(s[i]) THEN NumEnd(s, i + 1) ELSE i - 1

RECURSIVE NumVal(_)
NumVal(ds) == IF ds = <<>> THEN 0 ELSE 10 * NumVal(SubSeq(ds, 1, Len(ds) - 1)) + (ds[Len(ds)] - 48)

\* Members of an object text from position i on; acc maps the keys read so far.
RECURSIVE ParseMembers(_, _, _)
ParseMembers(s, i, acc) ==
    IF i > Len(s) \/ s[i] # QUOTE THEN Throw
    ELSE
      LET ke == StrEnd(s, i + 1) IN
      IF ke = 0 \/ ke + 2 > Len(s) \/ s[ke + 1] # 58 THEN Throw
      ELSE
        LET key == UnescapeJson(SubSeq(s, i + 1, ke - 1))
            vs == ke + 2
            ve == IF s[vs] = QUOTE THEN StrEnd(s, vs + 1)
                  ELSE IF IsDigit(s[vs]) THEN NumEnd(s, vs)
                  ELSE 0
            val == IF s[vs] = QUOTE
                   THEN JsStr(UnescapeJson(SubSeq(s, vs + 1, ve - 1)))
                   ELSE JsNum(NumVal(SubSeq(s, vs, ve)))
            acc2 == [k \in (DOMAIN acc) \cup {key} |-> IF k = key THEN val ELSE acc[k]]
        IN  IF ve = 0 \/ ve + 1 > Len(s) THEN Throw
            ELSE IF s[ve + 1] = 125
                 THEN (IF ve + 1 = Len(s) THEN Ok(acc2) ELSE Throw)
            ELSE IF s[ve + 1] = 44 THEN ParseMembers(s, ve + 2, acc2)
            ELSE Throw

\* JSON.parse restricted to object texts with string and number members (the
\* only JSON texts the model's callers present); anything else throws.
JSONparse(s) ==
    IF Len(s) < 2 \/ s[1] # 123 THEN Throw
    ELSE IF s[2] = 125 THEN (IF Len(s) = 2 THEN Ok(<<>>) ELSE Throw)
    ELSE ParseMembers(s, 2, <<>>)

\* Property read: obj.key
Prop(obj, key) == IF key \in DOMAIN obj THEN obj[key] ELSE Undefined

\* String.prototype.split('.') : the parts between the delimiters.
split(s, sep) ==
    LET at == {i \in 1..Len(s) : s[i] = sep}
        nth(k) == IF k = 0 THEN 0
                  ELSE IF k > Cardinality(at) THEN Len(s) + 1
                  ELSE CHOOSE p \in at : Cardinality({q \in at : q < p}) = k - 1
    IN  [k \in 1..(Cardinality(at) + 1) |-> SubSeq(s, nth(k - 1) + 1, nth(k) - 1)]

\* Array destructuring: element k, or undefined past the end.
Elem(parts, k) == IF k <= Len(parts) THEN JsStr(parts[k]) ELSE Undefined


\* ---------------------------------------------------------------------------
\* Configuration, principals and inputs
\* ---------------------------------------------------------------------------
SUPABASE_URL == <<104, 116, 116, 112, 115, 58, 47, 47, 97, 112, 112>>   \* "https://app"
q_oauth_denied == <<63, 101, 114, 114, 111, 114, 61, 111, 97, 117, 116, 104, 95, 100, 101, 110, 105, 101, 100>>  \* "?error=oauth_denied"
q_invalid_request == <<63, 101, 114, 114, 111, 114, 61, 105, 110, 118, 97, 108, 105, 100, 95, 114, 101, 113, 117, 101, 115, 116>>  \* "?error=invalid_request"
q_invalid_state == <<63, 101, 114, 114, 111, 114, 61, 105, 110, 118, 97, 108, 105, 100, 95, 115, 116, 97, 116, 101>>  \* "?error=invalid_state"
q_server_error == <<63, 101, 114, 114, 111, 114, 61, 115, 101, 114, 118, 101, 114, 95, 101, 114, 114, 111, 114>>  \* "?error=server_error"
q_token_exchange_failed == <<63, 101, 114, 114, 111, 114, 61, 116, 111, 107, 101, 110, 95, 101, 120, 99, 104, 97, 110, 103, 101, 95, 102, 97, 105, 108, 101, 100>>  \* "?error=token_exchange_failed"
q_database_error == <<63, 101, 114, 114, 111, 114, 61, 100, 97, 116, 97, 98, 97, 115, 101, 95, 101, 114, 114, 111, 114>>  \* "?error=database_error"
q_athlete_role_conflict == <<63, 101, 114, 114, 111, 114, 61, 97, 116, 104, 108, 101, 116, 101, 95, 114, 111, 108, 101, 95, 99, 111, 110, 102, 108, 105, 99, 116, 38, 97, 116, 104, 108, 101, 116, 101, 95, 105, 100, 61>>  \* "?error=athlete_role_conflict&athlete_id="
q_oauth_success == <<63, 111, 97, 117, 116, 104, 95, 115, 117, 99, 99, 101, 115, 115, 61, 116, 114, 117, 101, 38, 114, 111, 108, 101, 61>>  \* "?oauth_success=true&role="
read_scopes == <<114, 101, 97, 100, 44, 97, 99, 116, 105, 118, 105, 116, 121, 58, 114, 101, 97, 100, 44, 97, 99, 116, 105, 118, 105, 116, 121, 58, 114, 101, 97, 100, 95, 97, 108, 108>>  \* "read,activity:read,activity:read_all"
write_scope == <<97, 99, 116, 105, 118, 105, 116, 121, 58, 119, 114, 105, 116, 101>>  \* "activity:write"

\* Users known to the identity provider (auth.users); user ids are strings.
U1 == <<117, 49>>                                     \* "u1"
U2 == <<117, 50>>                                     \* "u2"
Users == {U1, U2}
\* A userId query value that holds the '.' character.
UDot == <<117, 46, 49>>                               \* "u.1"
\* A role value outside the enumeration.
CAT == <<67, 65, 84>>                                 \* "CAT"

\* Athlete ids of the provider.
Athletes == {1, 2}

\* The server's secrets, and a secret of the caller's own choosing.
ServerSecret == <<115>>                               \* "s"
OtherSecret == <<120>>                                \* "x"
ClientId == <<49>>                                    \* "1"
ClientSecret == <<99, 115>>                           \* "cs"

\* Process environments: a variable that is not set reads as undefined.
EnvFull == [STATE_SECRET |-> JsStr(ServerSecret),
            STRAVA_CLIENT_ID |-> JsStr(ClientId),
            STRAVA_CLIENT_SECRET |-> JsStr(ClientSecret)]
Envs == {EnvFull,
         [EnvFull EXCEPT !.STATE_SECRET = Undefined],
         [EnvFull EXCEPT !.STRAVA_CLIENT_SECRET = Undefined]}

\* Outputs of crypto.getRandomValues the model draws from.
RandomPool == {<<0>>, <<255, 254>>}
generateRandomString(bytes) == base64urlEncode(bytes)

\* Authorization codes a caller of the callback may present.
Codes == {<<99, 49>>}                                 \* "c1"

TickSteps == {1, 600}

\* SHA-256 as an ideal hash: a collision-free function of its input.
sha256(data) == <<1>> \o data

\* ---------------------------------------------------------------------------
\* State
\* ---------------------------------------------------------------------------
VARIABLES
    env,          \* process environment of the edge functions
    now,          \* Math.floor(Date.now() / 1000)
    ticks,        \* clock advances so far
    issued,       \* authorization-start responses that carried an authUrl
    authLast,     \* the last authorization-start response
    cb,           \* callback invocations: position and locals
    exchanges,    \* token requests the callback handlers sent to the provider
    grants,       \* credentials the provider issued: sequence of athlete ids
    connections,  \* rows of public.connections
    nextId,       \* next value of gen_random_uuid()
    mirrors,      \* rows of public.mirrors
    mr,           \* mirror invocations: position and locals
    connLast,     \* the last response of the connections endpoint
    cmp           \* a run of constantTimeEqual: position and locals

vars == <<env, now, ticks, issued, authLast, cb, exchanges, grants,
          connections, nextId, mirrors, mr, connLast, cmp>>

\* The k-th credential pair of the provider.
AccessToken(k) == <<65>> \o Digits(k)                 \* "A<k>"
RefreshToken(k) == <<82>> \o Digits(k)                \* "R<k>"

Response(status, location) == [status |-> status, location |-> location]
NoResponse == Response(0, <<>>)
Redirect(q) == Response(302, SUPABASE_URL \o q)


\* ---------------------------------------------------------------------------
\* Authorization-start
\* ---------------------------------------------------------------------------
\* TextDecoder.decode / TextEncoder.encode: the identity on ASCII; a byte that
\* is not ASCII decodes to U+FFFD, which encodes to three bytes.
TextDecode(bytes) == [i \in 1..Len(bytes) |-> IF bytes[i] < 128 THEN bytes[i] ELSE 65533]

RECURSIVE TextEncode(_)
TextEncode(str) ==
    IF str = <<>> THEN <<>>
    ELSE IF Len(str) = 1
         THEN (IF str[1] < 128 THEN str ELSE <<239, 191, 189>>)
    ELSE LET mid == Len(str) \div 2
         IN  TextEncode(SubSeq(str, 1, mid)) \o TextEncode(SubSeq(str, mid + 1, Len(str)))

\* The state payload in property order (part_002 lines 84-90).
statePayload(userId, role, exp, nonce, codeVerifier) ==
    << <<k_userId, JsStr(userId)>>, <<k_role, JsStr(role)>>, <<k_exp, JsNum(exp)>>,
       <<k_nonce, JsStr(nonce)>>, <<k_codeVerifier, JsStr(codeVerifier)>> >>

\* canonicalJson + '.' + signature, base64url-encoded (part_002 lines 92-94).
encodeState(payload, stateSecret) ==
    LET canonicalJson == JSONstringify(payload)
        signature == hmacSha256(canonicalJson, stateSecret)
    IN  base64urlEncode(TextEncode(canonicalJson \o <<DOT>> \o signature))

\* The scopes of the two roles taken for one another.
scopesFor_swapped(role) == IF role = HUMAN THEN write_scope ELSE read_scopes

scopesFor(role) == IF role = HUMAN THEN read_scopes ELSE write_scope

AuthError(status) ==
    [status |-> status, ok |-> FALSE, state |-> <<>>, scope |-> <<>>,
     code_challenge |-> <<>>, code_challenge_method |-> <<>>]

\* The answer of an authorization-start handler, with the request it answers.
AuthAnswer(handler, role, userId, answer) ==
    [handler |-> handler, role |-> role, userId |-> userId, answer |-> answer]

\* What the model keeps of an issued authUrl, and of the payload behind it.
Issued(handler, state, userId, role, exp, nonce, codeVerifier) ==
    [handler |-> handler, state |-> state, userId |-> userId, role |-> role,
     exp |-> exp, nonce |-> nonce, codeVerifier |-> codeVerifier, iat |-> now]

\* GET oauth-authorize?role=&userId= of the signed-state handler (part_002).
\* role and userId are the query values (undefined when absent); rv and rn are
\* the random bytes behind the code verifier and the nonce.
Authorize(role, userId, rv, rn) ==
    /\ Cardinality(issued) < MaxIssued
    /\ IF ~Truthy(role) \/ ~Truthy(userId) \/ role.s \notin {HUMAN, PET}
       THEN /\ authLast' = AuthAnswer("signed", role, userId, AuthError(400))
            /\ UNCHANGED issued
       ELSE IF ~Truthy(env.STRAVA_CLIENT_ID) \/ ~Truthy(env.STATE_SECRET)
       THEN /\ authLast' = AuthAnswer("signed", role, userId, AuthError(500))
            /\ UNCHANGED issued
       ELSE LET codeVerifier == generateRandomString(rv)
                codeChallenge == base64urlEncode(sha256(TextEncode(codeVerifier)))
                nonce == generateRandomString(rn)
                exp == now + (10 * 60)
                state == encodeState(statePayload(userId.s, role.s, exp, nonce, codeVerifier),
                                     env.STATE_SECRET.s)
            IN  /\ authLast' = AuthAnswer("signed", role, userId,
                                [status |-> 200, ok |-> TRUE, state |-> state,
                                scope |-> scopesFor(role.s),
                                code_challenge |-> codeChallenge,
                                code_challenge_method |-> <<83, 50, 53, 54>>])
                /\ issued' = issued \cup
                     {Issued("signed", state, userId.s, role.s, exp, nonce, codeVerifier)}
    /\ UNCHANGED <<cmp, env, now, ticks, cb, exchanges, grants, connections, nextId, mirrors, mr, connLast>>

\* GET oauth-authorize of the unsigned handler (oauth-authorize/index.ts): the
\* state is the JSON text of {userId, role, codeVerifier}.
LegacyAuthorize(role, userId, rv) ==
    /\ Cardinality(issued) < MaxIssued
    /\ IF ~Truthy(role) \/ ~Truthy(userId) \/ role.s \notin {HUMAN, PET}
       THEN /\ authLast' = AuthAnswer("legacy", role, userId, AuthError(400))
            /\ UNCHANGED issued
       ELSE IF ~Truthy(env.STRAVA_CLIENT_ID)
       THEN /\ authLast' = AuthAnswer("legacy", role, userId, AuthError(500))
            /\ UNCHANGED issued
       ELSE LET codeVerifier == generateRandomString(rv)
                codeChallenge == base64urlEncode(sha256(TextEncode(codeVerifier)))
                state == JSONstringify(<< <<k_userId, userId>>, <<k_role, role>>,
                                          <<k_codeVerifier, JsStr(codeVerifier)>> >>)
            IN  /\ authLast' = AuthAnswer("legacy", role, userId,
                                [status |-> 200, ok |-> TRUE, state |-> state,
                                scope |-> scopesFor(role.s),
                                code_challenge |-> codeChallenge,
                                code_challenge_method |-> <<83, 50, 53, 54>>])
                /\ issued' = issued \cup
                     {Issued("legacy", state, userId.s, role.s, 0, <<>>, codeVerifier)}
    /\ UNCHANGED <<cmp, env, now, ticks, cb, exchanges, grants, connections, nextId, mirrors, mr, connLast>>

\* The clock advances.
Tick(d) ==
    /\ ticks < MaxTicks
    /\ now' = now + d
    /\ ticks' = ticks + 1
    /\ UNCHANGED <<cmp, env, issued, authLast, cb, exchanges, grants, connections, nextId, mirrors, mr, connLast>>

\* ---------------------------------------------------------------------------
\* Callback: state verification
\* ---------------------------------------------------------------------------
\* a < b on a JS value a and a number b (ToNumber of a digit string or "").
JsLess(a, b) ==
    \/ a.t = "num" /\ a.n < b
    \/ a.t = "str" /\ (\A i \in 1..Len(a.s) : IsDigit(a.s[i])) /\ NumVal(a.s) < b

\* The try block of the signed-state callback (part_000 lines 90-115): the
\* verified payload, or Throw for any failure.
\* The verification without the expiry check.
verifyState_noExpiry(stateParam, stateSecret, t) ==
    LET stateData == base64urlDecode(stateParam) IN
    IF ~stateData.ok THEN Throw
    ELSE
      LET stateStr == TextDecode(stateData.v)
          parts == split(stateStr, DOT)
          jsonPart == Elem(parts, 1)
          providedSignature == Elem(parts, 2)
      IN
      IF ~Truthy(jsonPart) \/ ~Truthy(providedSignature) THEN Throw
      ELSE
        LET expectedSignature == hmacSha256(jsonPart.s, stateSecret)
            providedSigBytes == TextEncode(providedSignature.s)
            expectedSigBytes == TextEncode(expectedSignature)
        IN
        IF ~constantTimeEqual(providedSigBytes, expectedSigBytes) THEN Throw
        ELSE
          LET parsed == JSONparse(jsonPart.s) IN
          IF ~parsed.ok THEN Throw
          ELSE Ok(parsed.v)

verifyState(stateParam, stateSecret, t) ==
    LET stateData == base64urlDecode(stateParam) IN
    IF ~stateData.ok THEN Throw
    ELSE
      LET stateStr == TextDecode(stateData.v)
          parts == split(stateStr, DOT)
          jsonPart == Elem(parts, 1)
          providedSignature == Elem(parts, 2)
      IN
      IF ~Truthy(jsonPart) \/ ~Truthy(providedSignature) THEN Throw
      ELSE
        LET expectedSignature == hmacSha256(jsonPart.s, stateSecret)
            providedSigBytes == TextEncode(providedSignature.s)
            expectedSigBytes == TextEncode(expectedSignature)
        IN
        IF ~constantTimeEqual(providedSigBytes, expectedSigBytes) THEN Throw
        ELSE
          LET parsed == JSONparse(jsonPart.s) IN
          IF ~parsed.ok THEN Throw
          ELSE IF JsLess(Prop(parsed.v, k_exp), t) THEN Throw
          ELSE Ok(parsed.v)


\* ---------------------------------------------------------------------------
\* Callback handlers
\* ---------------------------------------------------------------------------
NoTokenData == [access_token |-> <<>>, refresh_token |-> <<>>, expires_at |-> 0, athlete |-> 0]
NoOrigin == [kind |-> "none", state |-> <<>>]

NoRequest == [method |-> "", code |-> Undefined, state |-> Undefined, error |-> Undefined]

IdleCallback ==
    [pc |-> "idle", handler |-> "", origin |-> NoOrigin, req |-> NoRequest, code |-> Undefined,
     at |-> 0, verified |-> FALSE, statePayload |-> <<>>,
     userId |-> Undefined, role |-> Undefined,
     codeVerifier |-> Undefined, tokenData |-> NoTokenData, resp |-> NoResponse,
     wrote |-> FALSE]

Request(method, code, state, error) ==
    [method |-> method, code |-> code, state |-> state, error |-> error]

\* A callback invocation that ended with the response r.
Ended(c, r) == [c EXCEPT !.pc = "done", !.resp = r]

\* The invocation once the token request is on its way to the provider.
Exchanging(c, payload) ==
    [c EXCEPT !.pc = "exchange", !.verified = TRUE, !.statePayload = payload,
              !.userId = Prop(payload, k_userId),
              !.role = Prop(payload, k_role),
              !.codeVerifier = Prop(payload, k_codeVerifier)]

\* The first steps with the parameter check ahead of the provider's error.
callbackStart_codeFirst(c, req) ==
    IF req.method = "OPTIONS" THEN Ended(c, Response(200, <<>>))
    ELSE IF ~Truthy(req.code) \/ ~Truthy(req.state) THEN Ended(c, Redirect(q_invalid_request))
    ELSE IF Truthy(req.error) THEN Ended(c, Redirect(q_oauth_denied))
    ELSE IF ~Truthy(env.STATE_SECRET) THEN Ended(c, Redirect(q_server_error))
    ELSE LET statePayload_ == verifyState(req.state.s, env.STATE_SECRET.s, now) IN
         IF ~statePayload_.ok THEN Ended(c, Redirect(q_invalid_state))
         ELSE IF ~Truthy(env.STRAVA_CLIENT_ID) \/ ~Truthy(env.STRAVA_CLIENT_SECRET)
              THEN Ended([c EXCEPT !.verified = TRUE, !.statePayload = statePayload_.v],
                         Redirect(q_server_error))
         ELSE Exchanging(c, statePayload_.v)

\* part_000 lines 47-154: from the request to the token request.
callbackStart(c, req) ==
    IF req.method = "OPTIONS" THEN Ended(c, Response(200, <<>>))
    ELSE IF Truthy(req.error) THEN Ended(c, Redirect(q_oauth_denied))
    ELSE IF ~Truthy(req.code) \/ ~Truthy(req.state) THEN Ended(c, Redirect(q_invalid_request))
    ELSE IF ~Truthy(env.STATE_SECRET) THEN Ended(c, Redirect(q_server_error))
    ELSE LET statePayload_ == verifyState(req.state.s, env.STATE_SECRET.s, now) IN
         IF ~statePayload_.ok THEN Ended(c, Redirect(q_invalid_state))
         ELSE IF ~Truthy(env.STRAVA_CLIENT_ID) \/ ~Truthy(env.STRAVA_CLIENT_SECRET)
              THEN Ended([c EXCEPT !.verified = TRUE, !.statePayload = statePayload_.v],
                         Redirect(q_server_error))
         ELSE Exchanging(c, statePayload_.v)

\* oauth-callback/index.ts lines 9-80: the state is parsed, not verified.
legacyCallbackStart(c, req) ==
    IF req.method = "OPTIONS" THEN Ended(c, Response(200, <<>>))
    ELSE IF Truthy(req.error) THEN Ended(c, Redirect(q_oauth_denied))
    ELSE IF ~Truthy(req.code) \/ ~Truthy(req.state) THEN Ended(c, Redirect(q_invalid_request))
    ELSE LET state == JSONparse(req.state.s) IN
         IF ~state.ok THEN Ended(c, Redirect(q_invalid_state))
         ELSE IF ~Truthy(env.STRAVA_CLIENT_ID) \/ ~Truthy(env.STRAVA_CLIENT_SECRET)
              THEN Ended(c, Redirect(q_server_error))
         ELSE [Exchanging(c, state.v) EXCEPT !.verified = FALSE]

\* The body of the token request (part_000 lines 147-153).
TokenRequest(i, c) ==
    [inv |-> i, handler |-> c.handler, code |-> c.code.s, userId |-> c.userId,
     role |-> c.role, code_verifier |-> c.codeVerifier]

\* A request arrives at a callback endpoint; the handler runs up to its first
\* call to the provider. origin records how the caller came by the state value.
CallbackReceive(i, handler, req, origin) ==
    /\ cb[i].pc = "idle"
    /\ LET c0 == [cb[i] EXCEPT !.handler = handler, !.origin = origin, !.req = req,
                               !.code = req.code, !.at = now]
           c1 == IF handler = "signed" THEN callbackStart(c0, req)
                 ELSE legacyCallbackStart(c0, req)
       IN  /\ cb' = [cb EXCEPT ![i] = c1]
           /\ exchanges' = IF c1.pc = "exchange"
                           THEN exchanges \cup {TokenRequest(i, c1)}
                           ELSE exchanges
    /\ UNCHANGED <<cmp, env, now, ticks, issued, authLast, grants, connections, nextId, mirrors, mr, connLast>>

\* The provider answers the token request: not ok, or a credential pair for
\* an athlete (part_000 lines 156-167).
CallbackToken(i, ok, athlete, life) ==
    /\ cb[i].pc = "exchange"
    /\ IF ~ok
       THEN /\ cb' = [cb EXCEPT ![i] = Ended(@, Redirect(q_token_exchange_failed))]
            /\ UNCHANGED grants
       ELSE /\ Len(grants) < MaxGrants
            /\ grants' = Append(grants, athlete)
            /\ cb' = [cb EXCEPT ![i] = [@ EXCEPT !.pc = "lookup",
                        !.tokenData = [access_token |-> AccessToken(Len(grants) + 1),
                                       refresh_token |-> RefreshToken(Len(grants) + 1),
                                       expires_at |-> now + life,
                                       athlete |-> athlete]]]
    /\ UNCHANGED <<cmp, env, now, ticks, issued, authLast, exchanges, connections, nextId, mirrors, mr, connLast>>

\* select * from connections where user_id = .. and athlete_id = .. (maybeSingle):
\* the row, or null when none matches, several match or the query fails.
selectByAthlete(rows, userId, athlete, storeOk) ==
    LET found == {r \in rows : userId.t = "str" /\ r.user_id = userId.s /\ r.athlete_id = athlete}
    IN  IF storeOk /\ Cardinality(found) = 1 THEN found ELSE {}

\* A role-conflict redirect that leaves the athlete id out.
conflictQuery_noAthlete(c) == q_athlete_role_conflict

\* The query of the role-conflict redirect (part_000 line 187) and of the
\* success redirect (line 225) of the invocation c.
conflictQuery(c) == q_athlete_role_conflict \o Digits(c.tokenData.athlete)

\* A success redirect that hands the access credential to the page.
successQuery_withToken(c) ==
    q_oauth_success \o c.role.s
        \o <<38, 116, 111, 107, 101, 110, 61>> \o c.tokenData.access_token   \* "&token="

successQuery(c) == q_oauth_success \o c.role.s

\* part_000 lines 174-190.
CallbackLookup(i, storeOk) ==
    /\ cb[i].pc = "lookup"
    /\ LET c == cb[i]
           existingConnection == selectByAthlete(connections, c.userId, c.tokenData.athlete, storeOk)
       IN  IF \E e \in existingConnection : JsStr(e.role) # c.role
           THEN cb' = [cb EXCEPT ![i] = Ended(@, Redirect(conflictQuery(c)))]
           ELSE cb' = [cb EXCEPT ![i].pc = "upsert"]
    /\ UNCHANGED <<cmp, env, now, ticks, issued, authLast, exchanges, grants, connections, nextId, mirrors, mr, connLast>>

\* The table's column types and constraints (migration, lines 94-109), checked
\* on the table as it would be after a write.
ValidRow(r) ==
    /\ r.user_id.t = "str" /\ r.user_id.s \in Users
    /\ r.role.t = "str" /\ r.role.s \in {HUMAN, PET}

UniqueUserRole(rows) ==
    \A r1, r2 \in rows : r1.user_id = r2.user_id /\ r1.role = r2.role => r1 = r2

UniqueUserAthlete(rows) ==
    \A r1, r2 \in rows : r1.user_id = r2.user_id /\ r1.athlete_id = r2.athlete_id => r1 = r2

\* insert ... on conflict (user_id, role) do nothing.
upsert_keepExisting(rows, id, userId, role, t, storeOk) ==
    IF ~storeOk \/ ~ValidRow([user_id |-> userId, role |-> role])
    THEN [error |-> TRUE, rows |-> rows, inserted |-> FALSE]
    ELSE LET old == {r \in rows : r.user_id = userId.s /\ r.role = role.s}
             new == [id |-> id, user_id |-> userId.s, role |-> role.s,
                     athlete_id |-> t.athlete, access_token |-> t.access_token,
                     refresh_token |-> t.refresh_token, expires_at |-> t.expires_at]
             after == IF old = {} THEN rows \cup {new} ELSE rows
         IN  IF UniqueUserAthlete(after)
             THEN [error |-> FALSE, rows |-> after, inserted |-> old = {}]
             ELSE [error |-> TRUE, rows |-> rows, inserted |-> FALSE]

\* An insert with no conflict clause on a table that lacks UNIQUE(user_id, role).
upsert_alwaysInsert(rows, id, userId, role, t, storeOk) ==
    IF ~storeOk \/ ~ValidRow([user_id |-> userId, role |-> role])
    THEN [error |-> TRUE, rows |-> rows, inserted |-> FALSE]
    ELSE LET new == [id |-> id, user_id |-> userId.s, role |-> role.s,
                     athlete_id |-> t.athlete, access_token |-> t.access_token,
                     refresh_token |-> t.refresh_token, expires_at |-> t.expires_at]
         IN  [error |-> FALSE, rows |-> rows \cup {new}, inserted |-> TRUE]

\* The upsert on a table that lacks UNIQUE(user_id, athlete_id).
upsert_noAthleteConstraint(rows, id, userId, role, t, storeOk) ==
    IF ~storeOk \/ ~ValidRow([user_id |-> userId, role |-> role])
    THEN [error |-> TRUE, rows |-> rows, inserted |-> FALSE]
    ELSE LET old == {r \in rows : r.user_id = userId.s /\ r.role = role.s}
             new == [id |-> IF old = {} THEN id ELSE (CHOOSE r \in old : TRUE).id,
                     user_id |-> userId.s, role |-> role.s,
                     athlete_id |-> t.athlete, access_token |-> t.access_token,
                     refresh_token |-> t.refresh_token, expires_at |-> t.expires_at]
         IN  [error |-> FALSE, rows |-> (rows \ old) \cup {new}, inserted |-> old = {}]

\* insert ... on conflict (user_id, role) do update: the table after the
\* write, or an error that leaves it as it was.
upsert(rows, id, userId, role, t, storeOk) ==
    IF ~storeOk \/ ~ValidRow([user_id |-> userId, role |-> role])
    THEN [error |-> TRUE, rows |-> rows, inserted |-> FALSE]
    ELSE LET old == {r \in rows : r.user_id = userId.s /\ r.role = role.s}
             new == [id |-> IF old = {} THEN id ELSE (CHOOSE r \in old : TRUE).id,
                     user_id |-> userId.s, role |-> role.s,
                     athlete_id |-> t.athlete, access_token |-> t.access_token,
                     refresh_token |-> t.refresh_token, expires_at |-> t.expires_at]
             after == (rows \ old) \cup {new}
         IN  IF UniqueUserAthlete(after)
             THEN [error |-> FALSE, rows |-> after, inserted |-> old = {}]
             ELSE [error |-> TRUE, rows |-> rows, inserted |-> FALSE]

\* A replacement in two store calls: the old row is deleted, then the new one
\* inserted, and a failing insert leaves the deletion behind.
CallbackUpsert_deleteFirst(i, storeOk) ==
    /\ cb[i].pc = "upsert"
    /\ LET c == cb[i]
           res == upsert(connections, nextId, c.userId, c.role, c.tokenData, storeOk)
       IN  /\ connections' = IF res.error
                            THEN {r \in connections :
                                     ~(JsStr(r.user_id) = c.userId /\ JsStr(r.role) = c.role)}
                            ELSE res.rows
           /\ nextId' = IF res.inserted THEN nextId + 1 ELSE nextId
           /\ IF res.error
              THEN cb' = [cb EXCEPT ![i] = Ended(@, Redirect(q_database_error))]
              ELSE cb' = [cb EXCEPT ![i] = [Ended(@, Redirect(successQuery(c)))
                                            EXCEPT !.wrote = TRUE]]
    /\ UNCHANGED <<cmp, env, now, ticks, issued, authLast, exchanges, grants, mirrors, mr, connLast>>

\* part_000 lines 192-227.
CallbackUpsert(i, storeOk) ==
    /\ cb[i].pc = "upsert"
    /\ LET c == cb[i]
           res == upsert(connections, nextId, c.userId, c.role, c.tokenData, storeOk)
       IN  /\ connections' = res.rows
           /\ nextId' = IF res.inserted THEN nextId + 1 ELSE nextId
           /\ IF res.error
              THEN cb' = [cb EXCEPT ![i] = Ended(@, Redirect(q_database_error))]
              ELSE cb' = [cb EXCEPT ![i] = [Ended(@, Redirect(successQuery(c)))
                                            EXCEPT !.wrote = TRUE]]
    /\ UNCHANGED <<cmp, env, now, ticks, issued, authLast, exchanges, grants, mirrors, mr, connLast>>


\* ---------------------------------------------------------------------------
\* Callers of the callback endpoint
\* ---------------------------------------------------------------------------
\* The caller holds the state values of the authUrls issued so far and may
\* present any of them, alter one, or make up a value of its own. It does not
\* hold the server's STATE_SECRET.
StateWith(json, signature) == base64urlEncode(TextEncode(json \o <<DOT>> \o signature))

JsonOf(t) == JSONstringify(statePayload(t.userId, t.role, t.exp, t.nonce, t.codeVerifier))

OtherUser(u) == IF u = U1 THEN U2 ELSE U1

\* Changes to the signature segment of an issued state value.
SignatureChanges == {"flipFirst", "flipLast", "dropLast", "append", "appendPart", "otherKey"}
\* Changes to the payload segment, the signature kept.
PayloadChanges == {"swapUser", "swapRole", "extendExp"}

ChangedSignature(kind, json, sig) ==
    CASE kind = "flipFirst" -> [sig EXCEPT ![1] = BitXor(@, 1)]
      [] kind = "flipLast" -> [sig EXCEPT ![Len(sig)] = BitXor(@, 1)]
      [] kind = "dropLast" -> SubSeq(sig, 1, Len(sig) - 1)
      [] kind = "append" -> sig \o <<65>>
      [] kind = "appendPart" -> sig \o <<DOT, 120>>
      [] kind = "otherKey" -> hmacSha256(json, OtherSecret)

ChangedPayload(kind, t) ==
    CASE kind = "swapUser" -> [t EXCEPT !.userId = OtherUser(@)]
      [] kind = "swapRole" -> [t EXCEPT !.role = IF @ = HUMAN THEN PET ELSE HUMAN]
      [] kind = "extendExp" -> [t EXCEPT !.exp = @ + 600]

\* The state value a caller derives from the issued one t; sig is the signature
\* segment t.state carries.
DerivedState(kind, t) ==
    IF kind = "asIssued" THEN t.state
    ELSE LET json == JsonOf(t)
             sig == hmacSha256(json, ServerSecret)
         IN  IF kind \in SignatureChanges
             THEN StateWith(json, ChangedSignature(kind, json, sig))
             ELSE StateWith(JsonOf(ChangedPayload(kind, t)), sig)

\* State values made up without any issued one: a payload signed with a key of
\* the caller's own, the bare JSON text of a payload, text that is not base64.
MadeUpState(kind, userId, role, codeVerifier) ==
    LET t == Issued("", <<>>, userId, role, now + 600, <<78>>, codeVerifier)
        bare == JSONstringify(<< <<k_userId, JsStr(userId)>>, <<k_role, JsStr(role)>>,
                                 <<k_codeVerifier, JsStr(codeVerifier)>> >>)
    IN  CASE kind = "forged" -> StateWith(JsonOf(t), hmacSha256(JsonOf(t), OtherSecret))
          [] kind = "bare" -> bare
          [] kind = "garbage" -> <<33, 33>>
          [] kind = "noDelimiter" -> base64urlEncode(TextEncode(JsonOf(t)))
          [] kind = "emptySignature" -> base64urlEncode(TextEncode(JsonOf(t) \o <<DOT>>))
          [] kind = "emptyJson" ->
                base64urlEncode(TextEncode(<<DOT>> \o hmacSha256(JsonOf(t), ServerSecret)))
          [] kind = "signedJunk" -> StateWith(<<106>>, hmacSha256(<<106>>, ServerSecret))

Origin(kind, state) == [kind |-> kind, state |-> state]


\* ---------------------------------------------------------------------------
\* Token-refresh helper and mirror pipeline (part_001)
\* ---------------------------------------------------------------------------
p_activities == <<47, 97, 99, 116, 105, 118, 105, 116, 105, 101, 115, 47>>   \* "/activities/"

\* activityUrl.match(/\/activities\/(\d+)/): the digits captured at the first
\* match, or <<>> when there is none.
matchActivity(url) ==
    LET n == Len(p_activities)
        hits == {i \in 1..Len(url) :
                    /\ i + n <= Len(url)
                    /\ SubSeq(url, i, i + n - 1) = p_activities
                    /\ IsDigit(url[i + n])}
    IN  IF hits = {} THEN <<>>
        ELSE LET i == CHOOSE h \in hits : \A g \in hits : h <= g
             IN  SubSeq(url, i + n, NumEnd(url, i + n))

NoRow == [id |-> 0, user_id |-> <<>>, role |-> <<>>, athlete_id |-> 0,
          access_token |-> <<>>, refresh_token |-> <<>>, expires_at |-> 0]
NoActivity == [athlete |-> 0, start_date |-> 0]
NoMirror == [id |-> 0, user_id |-> <<>>, source_activity_id |-> 0, status |-> "null"]

MirrorResponse(status, error, uploadId, mirror) ==
    [status |-> status, error |-> error, uploadId |-> uploadId, mirror |-> mirror]

\* The bearer credential of a request: whether the Authorization header is
\* there, and the user getUser resolves it to (<<>> when it fails).
Auth(header, user) == [header |-> header, user |-> user]
NoAuth == Auth(FALSE, <<>>)
BadAuth == Auth(TRUE, <<>>)

MirrorRequest(method, auth, activityUrl) ==
    [method |-> method, auth |-> auth, activityUrl |-> activityUrl]
NoMirrorRequest == MirrorRequest("", NoAuth, Undefined)

\* Streams as the provider returns them keyed by type: for each key whether
\* it is there, and its data.
Streams(has, latlng, time, altitude) ==
    [has |-> has, latlng |-> latlng, time |-> time, altitude |-> altitude]
NoStreams == Streams({}, <<>>, <<>>, <<>>)

\* The credential each request to the provider carried (<<>>: not sent).
NoBearer == [activity |-> <<>>, streams |-> <<>>, upload |-> <<>>]

IdleMirror ==
    [pc |-> "idle", user |-> <<>>, activityId |-> 0,
     humanConnection |-> NoRow, petConnection |-> NoRow,
     humanToken |-> <<>>, petToken |-> <<>>, refreshed |-> NoTokenData,
     activity |-> NoActivity, gpx |-> <<>>, calls |-> {}, uploadId |-> 0,
     inserted |-> FALSE, after |-> {}, req |-> NoMirrorRequest, keys |-> {},
     bearer |-> NoBearer,
     streams |-> NoStreams,
     resp |-> MirrorResponse(0, "", 0, NoMirror)]

MirrorEnded(m, status, error) ==
    [m EXCEPT !.pc = "done", !.resp = MirrorResponse(status, error, 0, NoMirror)]


\* part_001 lines 31-98: from the request to the look-up of an existing mirror.
mirrorStart(m, req, storeOk) ==
    IF req.method = "OPTIONS" THEN MirrorEnded(m, 200, "")
    ELSE IF req.method # "POST" THEN MirrorEnded(m, 405, "Method not allowed")
    ELSE IF ~req.auth.header THEN MirrorEnded(m, 401, "Missing authorization header")
    ELSE IF req.auth.user = <<>> THEN MirrorEnded(m, 401, "Unauthorized")
    ELSE IF req.activityUrl.t # "str" THEN MirrorEnded(m, 500, "Internal server error")
    ELSE LET urlMatch == matchActivity(req.activityUrl.s) IN
         IF urlMatch = <<>> THEN MirrorEnded(m, 400, "Invalid Strava activity URL")
         ELSE LET activityId == NumVal(urlMatch)
                  existingMirror == {x \in mirrors : /\ storeOk
                                                     /\ x.user_id = req.auth.user
                                                     /\ x.source_activity_id = activityId}
              IN  IF existingMirror # {}
                  THEN [m EXCEPT !.pc = "done", !.user = req.auth.user, !.activityId = activityId,
                                 !.resp = MirrorResponse(400, "Activity already mirrored", 0,
                                                         CHOOSE x \in existingMirror : TRUE)]
                  ELSE [m EXCEPT !.pc = "connections", !.user = req.auth.user,
                                 !.activityId = activityId]

MirrorReceive(i, req, storeOk) ==
    /\ mr[i].pc = "idle"
    /\ mr' = [mr EXCEPT ![i] =
                mirrorStart([@ EXCEPT !.after = {j \in DOMAIN mr : mr[j].pc = "done"},
                                      !.req = req],
                            req, storeOk)]
    /\ UNCHANGED <<cmp, env, now, ticks, issued, authLast, cb, exchanges, grants,
                   connections, nextId, mirrors, connLast>>

\* An upload that goes out with the human credential.
uploadBearer_human(m) == m.humanToken

\* Authorization header of the upload (line 196).
uploadBearer(m) == m.petToken

\* Authorization header of the activity and streams fetches (lines 130, 162).
fetchBearer(m) == m.humanToken

\* refreshTokenIfNeeded up to its return or its request to the provider
\* (lines 251-272), followed by what the pipeline does with a returned token:
\* the pet connection is next, then the activity fetch (lines 124-132).
afterHuman(m, token) ==
    LET m1 == [m EXCEPT !.humanToken = token] IN
    IF m.petConnection.expires_at > now + 300
    THEN [m1 EXCEPT !.petToken = m.petConnection.access_token,
                    !.pc = "activity", !.calls = @ \cup {"activity"},
                    !.bearer.activity = fetchBearer(m1)]
    ELSE [m1 EXCEPT !.pc = "refreshPet", !.calls = @ \cup {"refreshPet"}]

afterPet(m, token) ==
    [m EXCEPT !.petToken = token, !.pc = "activity", !.calls = @ \cup {"activity"},
              !.bearer.activity = fetchBearer(m)]

\* part_001 lines 100-125.
MirrorConnections(i, storeOk) ==
    /\ mr[i].pc = "connections"
    /\ LET m == mr[i]
           rows == {c \in connections : c.user_id = m.user}
           human == {c \in rows : c.role = HUMAN}
           pet == {c \in rows : c.role = PET}
       IN  IF ~storeOk
           THEN mr' = [mr EXCEPT ![i] = MirrorEnded(m, 500, "Failed to fetch connections")]
           ELSE IF human = {} \/ pet = {}
           THEN mr' = [mr EXCEPT ![i] =
                        MirrorEnded(m, 400, "Both human and pet connections required")]
           ELSE LET m1 == [m EXCEPT !.humanConnection = CHOOSE c \in human : TRUE,
                                    !.petConnection = CHOOSE c \in pet : TRUE]
                IN  IF m1.humanConnection.expires_at > now + 300
                    THEN mr' = [mr EXCEPT ![i] = afterHuman(m1, m1.humanConnection.access_token)]
                    ELSE mr' = [mr EXCEPT ![i] =
                                 [m1 EXCEPT !.pc = "refreshHuman",
                                            !.calls = @ \cup {"refreshHuman"}]]
    /\ UNCHANGED <<cmp, env, now, ticks, issued, authLast, cb, exchanges, grants,
                   connections, nextId, mirrors, connLast>>

\* The grant a credential of the provider belongs to ("A<k>", "R<k>").
GrantOf(token) == NumVal(Tail(token))

\* The helper going on with the stored credential when the refresh call fails.
MirrorRefreshed_staleToken(i, ok, life) ==
    /\ mr[i].pc \in {"refreshHuman", "refreshPet"}
    /\ LET m == mr[i]
           connection == IF m.pc = "refreshHuman" THEN m.humanConnection ELSE m.petConnection
       IN  IF ~ok
           THEN /\ mr' = [mr EXCEPT ![i] = IF m.pc = "refreshHuman"
                                           THEN afterHuman(m, connection.access_token)
                                           ELSE afterPet(m, connection.access_token)]
                /\ UNCHANGED grants
           ELSE /\ Len(grants) < MaxGrants
                /\ grants' = Append(grants, grants[GrantOf(connection.refresh_token)])
                /\ mr' = [mr EXCEPT ![i] = [m EXCEPT
                            !.pc = IF m.pc = "refreshHuman" THEN "persistHuman" ELSE "persistPet",
                            !.refreshed = [access_token |-> AccessToken(Len(grants) + 1),
                                           refresh_token |-> RefreshToken(Len(grants) + 1),
                                           expires_at |-> now + life,
                                           athlete |-> grants[GrantOf(connection.refresh_token)]]]]
    /\ UNCHANGED <<cmp, env, now, ticks, issued, authLast, cb, exchanges,
                   connections, nextId, mirrors, connLast>>

\* The provider answers a refresh request (lines 274-278): not ok makes the
\* helper throw, which the handler's catch turns into a 500; ok carries a new
\* credential pair for the athlete of the refresh credential sent.
MirrorRefreshed(i, ok, life) ==
    /\ mr[i].pc \in {"refreshHuman", "refreshPet"}
    /\ LET m == mr[i]
           connection == IF m.pc = "refreshHuman" THEN m.humanConnection ELSE m.petConnection
       IN  IF ~ok
           THEN /\ mr' = [mr EXCEPT ![i] = MirrorEnded(m, 500, "Internal server error")]
                /\ UNCHANGED grants
           ELSE /\ Len(grants) < MaxGrants
                /\ grants' = Append(grants, grants[GrantOf(connection.refresh_token)])
                /\ mr' = [mr EXCEPT ![i] = [m EXCEPT
                            !.pc = IF m.pc = "refreshHuman" THEN "persistHuman" ELSE "persistPet",
                            !.refreshed = [access_token |-> AccessToken(Len(grants) + 1),
                                           refresh_token |-> RefreshToken(Len(grants) + 1),
                                           expires_at |-> now + life,
                                           athlete |-> grants[GrantOf(connection.refresh_token)]]]]
    /\ UNCHANGED <<cmp, env, now, ticks, issued, authLast, cb, exchanges,
                   connections, nextId, mirrors, connLast>>

\* An update that matches every connection of the user instead of the one id.
updateTokens_byUser(rows, id, t, storeOk) ==
    IF ~storeOk THEN rows
    ELSE {IF r.user_id \in {q.user_id : q \in {x \in rows : x.id = id}}
          THEN [r EXCEPT !.access_token = t.access_token,
                         !.refresh_token = t.refresh_token,
                         !.expires_at = t.expires_at]
          ELSE r : r \in rows}

\* update connections set access_token, refresh_token, expires_at where id = ..
updateTokens(rows, id, t, storeOk) ==
    IF ~storeOk THEN rows
    ELSE {IF r.id = id
          THEN [r EXCEPT !.access_token = t.access_token,
                         !.refresh_token = t.refresh_token,
                         !.expires_at = t.expires_at]
          ELSE r : r \in rows}

\* refreshTokenIfNeeded lines 280-294: the update's outcome is not looked at.
MirrorPersist(i, storeOk) ==
    /\ mr[i].pc \in {"persistHuman", "persistPet"}
    /\ LET m == mr[i]
           connection == IF m.pc = "persistHuman" THEN m.humanConnection ELSE m.petConnection
       IN  /\ connections' = updateTokens(connections, connection.id, m.refreshed, storeOk)
           /\ mr' = [mr EXCEPT ![i] = IF m.pc = "persistHuman"
                                      THEN afterHuman(m, m.refreshed.access_token)
                                      ELSE afterPet(m, m.refreshed.access_token)]
    /\ UNCHANGED <<cmp, env, now, ticks, issued, authLast, cb, exchanges, grants,
                   nextId, mirrors, connLast>>

\* The pipeline without the ownership test.
ownsActivity_unchecked(owner, humanConnection) == TRUE

\* The ownership test of line 150.
ownsActivity(owner, humanConnection) == owner = humanConnection.athlete_id

\* A streams request that asks for the heart rate as well.
streamKeys_withHeartrate == {"latlng", "time", "altitude", "heartrate"}

\* The keys of the streams request (line 159): keys=latlng,time,altitude.
streamKeys == {"latlng", "time", "altitude"}

\* The provider answers the activity fetch (lines 134-165): status, and the
\* activity's owner and start time.
MirrorActivity(i, status, owner, start) ==
    /\ mr[i].pc = "activity"
    /\ LET m == mr[i] IN
       IF status = 404
       THEN mr' = [mr EXCEPT ![i] = MirrorEnded(m, 404, "Activity not found or private")]
       ELSE IF status # 200
       THEN mr' = [mr EXCEPT ![i] = MirrorEnded(m, 500, "Failed to fetch activity")]
       ELSE IF ~ownsActivity(owner, m.humanConnection)
       THEN mr' = [mr EXCEPT ![i] =
                    MirrorEnded([m EXCEPT !.activity = [athlete |-> owner, start_date |-> start]],
                                403, "Activity does not belong to connected human account")]
       ELSE mr' = [mr EXCEPT ![i] = [m EXCEPT !.pc = "streams", !.keys = streamKeys,
                                              !.activity = [athlete |-> owner, start_date |-> start],
                                              !.calls = @ \cup {"streams"},
                                              !.bearer.streams = fetchBearer(m)]]
    /\ UNCHANGED <<cmp, env, now, ticks, issued, authLast, cb, exchanges, grants,
                   connections, nextId, mirrors, connLast>>

\* The track log with the first time offset on every point.
generateGPX_firstOffset(activity, streams) ==
    [i \in 1..Len(streams.latlng) |->
        [lat |-> streams.latlng[i][1],
         lon |-> streams.latlng[i][2],
         time |-> IF i <= Len(streams.time)
                  THEN JsNum(activity.start_date + streams.time[1]) ELSE Undefined,
         ele |-> IF "altitude" \notin streams.has THEN "null"
                 ELSE IF i <= Len(streams.altitude) THEN ToString(streams.altitude[i])
                 ELSE "undefined"]]

\* generateGPX lines 297-322: one track point per latitude/longitude sample.
\* The time is in seconds since the epoch; ele is "null" when there is no
\* altitude stream and "undefined" when the stream has no value at the index.
generateGPX(activity, streams) ==
    [i \in 1..Len(streams.latlng) |->
        [lat |-> streams.latlng[i][1],
         lon |-> streams.latlng[i][2],
         time |-> IF i <= Len(streams.time)
                  THEN JsNum(activity.start_date + streams.time[i]) ELSE Undefined,
         ele |-> IF "altitude" \notin streams.has THEN "null"
                 ELSE IF i <= Len(streams.altitude) THEN ToString(streams.altitude[i])
                 ELSE "undefined"]]

\* new Date(NaN).toISOString() throws.
GpxThrows(gpx) == \E i \in 1..Len(gpx) : gpx[i].time.t = "undef"

\* The provider's streams answer is keyed by type and holds the streams that
\* were asked for, of those the activity has (line 159, key_by_type=true).
streamsResponse(available, keys) == [available EXCEPT !.has = @ \cap keys]

\* The provider answers the streams fetch (lines 167-199).
MirrorStreams(i, ok, available) ==
    /\ mr[i].pc = "streams"
    /\ LET streams == streamsResponse(available, mr[i].keys)
           m == IF ok THEN [mr[i] EXCEPT !.streams = streams] ELSE mr[i] IN
       IF ~ok
       THEN mr' = [mr EXCEPT ![i] = MirrorEnded(m, 500, "Failed to fetch activity streams")]
       ELSE IF "latlng" \notin streams.has \/ "time" \notin streams.has
       THEN mr' = [mr EXCEPT ![i] = MirrorEnded(m, 400, "Activity missing GPS data")]
       ELSE LET gpx == generateGPX(m.activity, streams) IN
            IF GpxThrows(gpx)
            THEN mr' = [mr EXCEPT ![i] = MirrorEnded(m, 500, "Internal server error")]
            ELSE mr' = [mr EXCEPT ![i] = [m EXCEPT !.pc = "upload", !.gpx = gpx,
                                                   !.calls = @ \cup {"upload"},
                                                   !.bearer.upload = uploadBearer(m)]]
    /\ UNCHANGED <<cmp, env, now, ticks, issued, authLast, cb, exchanges, grants,
                   connections, nextId, mirrors, connLast>>

\* A handler that answers an accepted upload with an error.
MirrorUpload_acceptedIsError(i, ok, uploadId) ==
    /\ mr[i].pc = "upload"
    /\ IF ~ok
       THEN mr' = [mr EXCEPT ![i] = MirrorEnded(@, 500, "Failed to upload to pet account")]
       ELSE mr' = [mr EXCEPT ![i] = [MirrorEnded(@, 500, "Internal server error")
                                        EXCEPT !.uploadId = uploadId]]
    /\ UNCHANGED <<cmp, env, now, ticks, issued, authLast, cb, exchanges, grants,
                   connections, nextId, mirrors, connLast>>

\* A handler that goes on to the mirror record when the upload was refused.
MirrorUpload_recordAnyway(i, ok, uploadId) ==
    /\ mr[i].pc = "upload"
    /\ IF ~ok
       THEN mr' = [mr EXCEPT ![i] = [@ EXCEPT !.pc = "insert"]]
       ELSE mr' = [mr EXCEPT ![i] = [@ EXCEPT !.pc = "insert", !.uploadId = uploadId]]
    /\ UNCHANGED <<cmp, env, now, ticks, issued, authLast, cb, exchanges, grants,
                   connections, nextId, mirrors, connLast>>

\* The provider answers the upload (lines 201-208).
MirrorUpload(i, ok, uploadId) ==
    /\ mr[i].pc = "upload"
    /\ IF ~ok
       THEN mr' = [mr EXCEPT ![i] = MirrorEnded(@, 500, "Failed to upload to pet account")]
       ELSE mr' = [mr EXCEPT ![i] = [@ EXCEPT !.pc = "insert", !.uploadId = uploadId]]
    /\ UNCHANGED <<cmp, env, now, ticks, issued, authLast, cb, exchanges, grants,
                   connections, nextId, mirrors, connLast>>

UniqueMirror(rows) ==
    \A r1, r2 \in rows :
        r1.user_id = r2.user_id /\ r1.source_activity_id = r2.source_activity_id => r1 = r2

\* An insert that writes the record as DONE.
insertMirror_done(rows, row, storeOk) ==
    IF storeOk /\ (\A r \in rows : ~(r.user_id = row.user_id
                                     /\ r.source_activity_id = row.source_activity_id))
    THEN [error |-> FALSE, rows |-> rows \cup {[row EXCEPT !.status = "DONE"]},
          data |-> [row EXCEPT !.status = "DONE"]]
    ELSE [error |-> TRUE, rows |-> rows, data |-> NoMirror]

\* insert into mirrors ... select single: the row (with the id the table gives
\* it), or an error.
insertMirror(rows, row, storeOk) ==
    IF storeOk /\ (\A r \in rows : ~(r.user_id = row.user_id
                                     /\ r.source_activity_id = row.source_activity_id))
    THEN [error |-> FALSE, rows |-> rows \cup {row}, data |-> row]
    ELSE [error |-> TRUE, rows |-> rows, data |-> NoMirror]

\* A handler that answers a failed insert of the mirror record with an error.
MirrorInsert_fatal(i, storeOk) ==
    /\ mr[i].pc = "insert"
    /\ LET m == mr[i]
           res == insertMirror(mirrors, [id |-> Cardinality(mirrors) + 1,
                                         user_id |-> m.user,
                                         source_activity_id |-> m.activityId,
                                         status |-> "PENDING"], storeOk)
       IN  /\ mirrors' = res.rows
           /\ mr' = [mr EXCEPT ![i] =
                        IF res.error
                        THEN MirrorEnded(m, 500, "Failed to create mirror record")
                        ELSE [m EXCEPT !.pc = "done", !.inserted = TRUE,
                                       !.resp = MirrorResponse(200, "", m.uploadId, res.data)]]
    /\ UNCHANGED <<cmp, env, now, ticks, issued, authLast, cb, exchanges, grants,
                   connections, nextId, connLast>>

\* part_001 lines 210-240: the mirror record, then the 200 response.
MirrorInsert(i, storeOk) ==
    /\ mr[i].pc = "insert"
    /\ LET m == mr[i]
           res == insertMirror(mirrors, [id |-> Cardinality(mirrors) + 1,
                                         user_id |-> m.user,
                                         source_activity_id |-> m.activityId,
                                         status |-> "PENDING"], storeOk)
       IN  /\ mirrors' = res.rows
           /\ mr' = [mr EXCEPT ![i] = [m EXCEPT !.pc = "done", !.inserted = ~res.error,
                        !.resp = MirrorResponse(200, "", m.uploadId, res.data)]]
    /\ UNCHANGED <<cmp, env, now, ticks, issued, authLast, cb, exchanges, grants,
                   connections, nextId, connLast>>

\* ---------------------------------------------------------------------------
\* Connections endpoint (connections/index.ts)
\* ---------------------------------------------------------------------------
ConnectionsResponse(status, body) == [status |-> status, body |-> body]

\* The answer of the connections endpoint, with the request it answers.
\* deleted is the number of rows a DELETE removed.
ConnectionsAnswer(method, auth, role, resp) ==
    [method |-> method, auth |-> auth, role |-> role, resp |-> resp, deleted |-> 0]

NoConnectionsAnswer == ConnectionsAnswer("", NoAuth, Undefined, ConnectionsResponse(0, {}))

\* A select that returns the credential columns as well.
Listed_withTokens(c) ==
    [id |-> c.id, role |-> c.role, athlete_id |-> c.athlete_id,
     expires_at |-> c.expires_at, access_token |-> c.access_token]

\* The columns the GET selects.
Listed(c) == [id |-> c.id, role |-> c.role, athlete_id |-> c.athlete_id,
              expires_at |-> c.expires_at]

\* A delete that matches every connection of the user.
deleteConnection_anyRole(rows, user, role) == {c \in rows : c.user_id # user}

\* delete from connections where user_id = .. and role = .. (lines 80-84).
deleteConnection(rows, user, role) ==
    {c \in rows : ~(c.user_id = user /\ c.role = role)}

\* GET or DELETE of the connections endpoint; auth is the bearer credential,
\* role is the query value of a DELETE.
ConnectionsRequest(method, auth, role, storeOk) ==
    /\ IF method = "OPTIONS"
       THEN /\ connLast' = ConnectionsAnswer(method, auth, role, ConnectionsResponse(200, {}))
            /\ UNCHANGED connections
       ELSE IF ~auth.header \/ auth.user = <<>>
       THEN /\ connLast' = ConnectionsAnswer(method, auth, role, ConnectionsResponse(401, {}))
            /\ UNCHANGED connections
       ELSE IF method = "GET"
       THEN /\ connLast' = ConnectionsAnswer(method, auth, role,
                           IF storeOk
                           THEN ConnectionsResponse(200,
                                    {Listed(c) : c \in {x \in connections : x.user_id = auth.user}})
                           ELSE ConnectionsResponse(500, {}))
            /\ UNCHANGED connections
       ELSE IF method = "DELETE"
       THEN IF ~Truthy(role) \/ role.s \notin {HUMAN, PET}
            THEN /\ connLast' = ConnectionsAnswer(method, auth, role, ConnectionsResponse(400, {}))
                 /\ UNCHANGED connections
            ELSE IF ~storeOk
            THEN /\ connLast' = ConnectionsAnswer(method, auth, role, ConnectionsResponse(500, {}))
                 /\ UNCHANGED connections
            ELSE /\ connections' = deleteConnection(connections, auth.user, role.s)
                 /\ connLast' = [ConnectionsAnswer(method, auth, role, ConnectionsResponse(200, {}))
                                    EXCEPT !.deleted = Cardinality(connections \ connections')]
       ELSE /\ connLast' = ConnectionsAnswer(method, auth, role, ConnectionsResponse(405, {}))
            /\ UNCHANGED connections
    /\ UNCHANGED <<cmp, env, now, ticks, issued, authLast, cb, exchanges, grants,
                   nextId, mirrors, mr>>


\* ---------------------------------------------------------------------------
\* constantTimeEqual, statement by statement (part_000 lines 32-39)
\* ---------------------------------------------------------------------------
\* examined is the set of byte positions the loop body has read.
Comparing(pc, a, b, i, result, examined, ret) ==
    [pc |-> pc, a |-> a, b |-> b, i |-> i, result |-> result,
     examined |-> examined, ret |-> ret]

IdleCompare == Comparing("idle", <<>>, <<>>, 0, 0, {}, FALSE)

\* Line 33: if (a.length !== b.length) return false; line 34: let result = 0.
CompareStart ==
    /\ cmp.pc = "start"
    /\ cmp' = IF Len(cmp.a) # Len(cmp.b)
              THEN [cmp EXCEPT !.pc = "done", !.ret = FALSE]
              ELSE [cmp EXCEPT !.pc = "loop", !.i = 0, !.result = 0]
    /\ UNCHANGED <<env, now, ticks, issued, authLast, cb, exchanges, grants,
                   connections, nextId, mirrors, mr, connLast>>

\* A loop that returns at the first byte that differs.
CompareStep_earlyExit ==
    /\ cmp.pc = "loop"
    /\ cmp.i < Len(cmp.a)
    /\ cmp' = IF cmp.a[cmp.i + 1] # cmp.b[cmp.i + 1]
              THEN [cmp EXCEPT !.pc = "done", !.ret = FALSE,
                               !.examined = @ \cup {cmp.i + 1}]
              ELSE [cmp EXCEPT !.i = @ + 1, !.examined = @ \cup {cmp.i + 1}]
    /\ UNCHANGED <<env, now, ticks, issued, authLast, cb, exchanges, grants,
                   connections, nextId, mirrors, mr, connLast>>

\* Lines 35-37: result |= a[i] ^ b[i] (positions are 1-based here).
CompareStep ==
    /\ cmp.pc = "loop"
    /\ cmp.i < Len(cmp.a)
    /\ cmp' = [cmp EXCEPT !.result = BitOr(@, BitXor(cmp.a[cmp.i + 1], cmp.b[cmp.i + 1])),
                          !.examined = @ \cup {cmp.i + 1},
                          !.i = @ + 1]
    /\ UNCHANGED <<env, now, ticks, issued, authLast, cb, exchanges, grants,
                   connections, nextId, mirrors, mr, connLast>>

\* Line 38: return result === 0.
CompareReturn ==
    /\ cmp.pc = "loop"
    /\ cmp.i >= Len(cmp.a)
    /\ cmp' = [cmp EXCEPT !.pc = "done", !.ret = (cmp.result = 0)]
    /\ UNCHANGED <<env, now, ticks, issued, authLast, cb, exchanges, grants,
                   connections, nextId, mirrors, mr, connLast>>

\* ---------------------------------------------------------------------------
\* Specifications
\* ---------------------------------------------------------------------------
CallbackIds == {1, 2}
MirrorIds == {1, 2}

Init ==
    /\ env \in Envs
    /\ now = 0
    /\ ticks = 0
    /\ issued = {}
    /\ authLast = AuthAnswer("", Undefined, Undefined, AuthError(0))
    /\ cb = [i \in CallbackIds |-> IdleCallback]
    /\ exchanges = {}
    /\ grants = <<>>
    /\ connections = {}
    /\ nextId = 1
    /\ mirrors = {}
    /\ mr = [i \in MirrorIds |-> IdleMirror]
    /\ connLast = NoConnectionsAnswer
    /\ cmp = IdleCompare

\* State values a caller may present, with how it came by them.
DerivedStates(kinds) ==
    UNION {{[origin |-> Origin(k, t.state), state |-> JsStr(DerivedState(k, t))] :
               t \in {u \in issued : k = "asIssued" \/ u.handler = "signed"}} :
           k \in kinds}

MadeUpStates(kinds) ==
    {[origin |-> Origin(k, <<>>), state |-> JsStr(MadeUpState(k, U1, r, <<90>>))] :
        k \in kinds, r \in {HUMAN, PET}}

AbsentState == [origin |-> Origin("absent", <<>>), state |-> Undefined]

\* Requests that end before the state is looked at: no code, the redirect of
\* a denied consent, a CORS preflight.
OddCallbackRequests ==
    {Request("GET", Undefined, JsStr(<<33>>), Undefined),
     Request("GET", JsStr(<<99, 49>>), JsStr(<<33>>), JsStr(<<100>>)),
     Request("GET", Undefined, Undefined, JsStr(<<100>>)),
     Request("OPTIONS", Undefined, Undefined, Undefined)}

\* A new invocation takes the lowest free slot.
AnyCallbackReceive(ids, handlers, derived, madeUp) ==
    \E i \in ids :
        /\ cb[i].pc = "idle"
        /\ \A j \in ids : j < i => cb[j].pc # "idle"
        /\ \/ \E x \in DerivedStates(derived) \cup MadeUpStates(madeUp) \cup {AbsentState} :
                 \E h \in handlers, c \in Codes :
                    CallbackReceive(i, h, Request("GET", JsStr(c), x.state, Undefined), x.origin)
           \/ \E r \in OddCallbackRequests, h \in handlers :
                 CallbackReceive(i, h, r, Origin("odd", <<>>))

TokenLives == {300, 21600}

\* The steps of the callback invocations in flight; oks are the outcomes the
\* provider may give, stores those of the store.
CallbackSteps(ids, lives, oks, stores) ==
    \E i \in ids :
        \/ \E ok \in oks, a \in Athletes, life \in lives : CallbackToken(i, ok, a, life)
        \/ \E storeOk \in stores : CallbackLookup(i, storeOk)
        \/ \E storeOk \in stores : CallbackUpsert(i, storeOk)

\* --- The state-token codec: one authorization, one callback invocation, every
\* --- kind of state value, the clock.
NextCodec ==
    \/ /\ issued = {} /\ authLast.handler = ""
       /\ \E r \in {JsStr(HUMAN), JsStr(PET), JsStr(CAT), Undefined},
             u \in {JsStr(U1), JsStr(UDot), Undefined} :
              Authorize(r, u, <<255, 254>>, <<0>>)
    \/ /\ issued = {} /\ authLast.handler = ""
       /\ LegacyAuthorize(JsStr(HUMAN), JsStr(U1), <<255, 254>>)
    \/ \E d \in TickSteps : Tick(d)
    \/ AnyCallbackReceive({1}, {"signed", "legacy"},
                          {"asIssued"} \cup SignatureChanges \cup PayloadChanges,
                          {"forged", "bare", "garbage", "noDelimiter", "emptySignature",
                           "emptyJson", "signedJunk"})

SpecCodec == Init /\ [][NextCodec]_vars

\* An authUrl of this handler for this role is out already.
IssuedFor(handler, role) == \E t \in issued : t.handler = handler /\ t.role = role

\* --- The account-linking flow: authorizations of one user for both roles, two
\* --- callback invocations that may overlap, the provider's and the store's
\* --- answers.
NextOAuth ==
    \/ \E r \in {HUMAN, PET} :
          /\ ~IssuedFor("signed", r)
          /\ Authorize(JsStr(r), JsStr(U1), <<255, 254>>, <<0>>)
    \/ /\ ~IssuedFor("legacy", HUMAN)
       /\ LegacyAuthorize(JsStr(HUMAN), JsStr(U1), <<255, 254>>)
    \/ AnyCallbackReceive(CallbackIds, {"signed", "legacy"}, {"asIssued"}, {"bare"})
    \/ CallbackSteps(CallbackIds, {21600}, BOOLEAN, BOOLEAN)

SpecOAuth == Init /\ [][NextOAuth]_vars

\* --- The mirror pipeline: a user whose two accounts are linked (the state two
\* --- successful callbacks leave), two mirror invocations that may overlap.
LinkedRow(id, role, athlete, expires_at) ==
    [id |-> id, user_id |-> U1, role |-> role, athlete_id |-> athlete,
     access_token |-> AccessToken(id), refresh_token |-> RefreshToken(id),
     expires_at |-> expires_at]

InitMirror ==
    /\ env = EnvFull
    /\ now = 0
    /\ ticks = 0
    /\ issued = {}
    /\ authLast = AuthAnswer("", Undefined, Undefined, AuthError(0))
    /\ cb = [i \in CallbackIds |-> IdleCallback]
    /\ exchanges = {}
    /\ grants = <<1, 2>>
    /\ \E h \in TokenLives, p \in TokenLives :
          connections = {LinkedRow(1, HUMAN, 1, h), LinkedRow(2, PET, 2, p)}
    /\ nextId = 3
    /\ mirrors = {}
    /\ mr = [i \in MirrorIds |-> IdleMirror]
    /\ connLast = NoConnectionsAnswer
    /\ cmp = IdleCompare

\* The start time of the activities the provider returns, in seconds.
StartDate == 1000

ActivityUrl(n) == JsStr(<<47>> \o p_activities \o Digits(n))

MirrorRequests ==
    {MirrorRequest("POST", Auth(TRUE, U1), ActivityUrl(n)) : n \in {7, 8}}
        \cup {MirrorRequest("POST", Auth(TRUE, U2), ActivityUrl(7)),
              MirrorRequest("POST", Auth(TRUE, U1), JsStr(<<47, 120>>)),
              MirrorRequest("POST", Auth(TRUE, U1), Undefined),
              MirrorRequest("POST", Auth(TRUE, U1), JsNum(7)),
              MirrorRequest("POST", NoAuth, ActivityUrl(7)),
              MirrorRequest("POST", BadAuth, ActivityUrl(7)),
              MirrorRequest("GET", Auth(TRUE, U1), ActivityUrl(7)),
              MirrorRequest("OPTIONS", NoAuth, Undefined)}

StreamSets ==
    {Streams({"latlng", "time"}, << <<1, 2>> >>, <<0>>, <<>>),
     Streams({"latlng", "time", "altitude"}, << <<1, 2>> >>, <<0>>, <<5>>),
     Streams({"latlng", "time"}, << <<1, 2>>, <<3, 4>> >>, <<0>>, <<>>),
     Streams({"latlng", "time"}, << <<1, 2>>, <<3, 4>>, <<5, 6>> >>, <<0, 1, 3>>, <<>>),
     Streams({"latlng", "time", "altitude", "heartrate"}, << <<1, 2>> >>, <<0>>, <<7>>),
     Streams({"latlng", "time", "altitude"}, << <<1, 2>>, <<3, 4>> >>, <<0, 1>>, <<5>>),
     Streams({"latlng"}, << <<1, 2>> >>, <<>>, <<>>)}

\* --- constantTimeEqual on byte arrays of up to MaxCompareLen bytes.
CompareBytes == {0, 1, 255}

ByteArrays == UNION {[1..n -> CompareBytes] : n \in 0..MaxCompareLen}

InitEqual ==
    /\ env = EnvFull
    /\ now = 0
    /\ ticks = 0
    /\ issued = {}
    /\ authLast = AuthAnswer("", Undefined, Undefined, AuthError(0))
    /\ cb = [i \in CallbackIds |-> IdleCallback]
    /\ exchanges = {}
    /\ grants = <<>>
    /\ connections = {}
    /\ nextId = 1
    /\ mirrors = {}
    /\ mr = [i \in MirrorIds |-> IdleMirror]
    /\ connLast = NoConnectionsAnswer
    /\ \E a \in ByteArrays, b \in ByteArrays :
          cmp = Comparing("start", a, b, 0, 0, {}, FALSE)

NextEqual == CompareStart \/ CompareStep \/ CompareReturn

SpecEqual == InitEqual /\ [][NextEqual]_vars

\* --- The connections endpoint on a store that holds links of two users.
ConnectionOf(id, user, role, athlete) ==
    [id |-> id, user_id |-> user, role |-> role, athlete_id |-> athlete,
     access_token |-> AccessToken(id), refresh_token |-> RefreshToken(id),
     expires_at |-> 21600]

AllConnections ==
    {ConnectionOf(1, U1, HUMAN, 1), ConnectionOf(2, U1, PET, 2),
     ConnectionOf(3, U2, HUMAN, 1), ConnectionOf(4, U2, PET, 2)}

\* Mirror records of the two users.
AllMirrors ==
    {[id |-> 1, user_id |-> U1, source_activity_id |-> 7, status |-> "PENDING"],
     [id |-> 2, user_id |-> U2, source_activity_id |-> 7, status |-> "PENDING"]}

InitConnections ==
    /\ env = EnvFull
    /\ now = 0
    /\ ticks = 0
    /\ issued = {}
    /\ authLast = AuthAnswer("", Undefined, Undefined, AuthError(0))
    /\ cb = [i \in CallbackIds |-> IdleCallback]
    /\ exchanges = {}
    /\ grants = <<1, 2, 1, 2>>
    /\ connections \in SUBSET AllConnections
    /\ nextId = 5
    /\ mirrors \in SUBSET AllMirrors
    /\ mr = [i \in MirrorIds |-> IdleMirror]
    /\ connLast = NoConnectionsAnswer
    /\ cmp = IdleCompare

NextConnections ==
    \E method \in {"GET", "DELETE", "OPTIONS", "PUT"},
       auth \in {Auth(TRUE, U1), Auth(TRUE, U2), NoAuth, BadAuth},
       role \in {JsStr(HUMAN), JsStr(PET), JsStr(CAT), Undefined},
       storeOk \in BOOLEAN :
        ConnectionsRequest(method, auth, role, storeOk)

SpecConnections == InitConnections /\ [][NextConnections]_vars

\* --- A callback on a store that holds links already: one callback slot, one
\* --- authorization URL per role.
InitRelink ==
    /\ env = EnvFull
    /\ now = 0
    /\ ticks = 0
    /\ issued = {}
    /\ authLast = AuthAnswer("", Undefined, Undefined, AuthError(0))
    /\ cb = [i \in CallbackIds |-> IdleCallback]
    /\ exchanges = {}
    /\ grants = <<1, 2, 1>>
    /\ connections \in SUBSET (AllConnections \ {ConnectionOf(4, U2, PET, 2)})
    /\ nextId = 4
    /\ mirrors = {}
    /\ mr = [i \in MirrorIds |-> IdleMirror]
    /\ connLast = NoConnectionsAnswer
    /\ cmp = IdleCompare

NextRelink ==
    \/ \E r \in {HUMAN, PET} :
          /\ ~IssuedFor("signed", r)
          /\ Authorize(JsStr(r), JsStr(U1), <<255, 254>>, <<0>>)
    \/ AnyCallbackReceive({1}, {"signed"}, {"asIssued"}, {})
    \/ CallbackSteps({1}, {300}, BOOLEAN, BOOLEAN)

SpecRelink == InitRelink /\ [][NextRelink]_vars

\* A new invocation takes the lowest free slot.
AnyMirrorReceive(ids, reqs, stores) ==
    \E i \in ids :
        /\ mr[i].pc = "idle"
        /\ \A j \in ids : j < i => mr[j].pc # "idle"
        /\ \E req \in reqs, storeOk \in stores : MirrorReceive(i, req, storeOk)

MirrorSteps(ids, lives, sets, statuses, oks, stores) ==
    \E i \in ids :
        \/ \E storeOk \in stores : MirrorConnections(i, storeOk)
        \/ \E ok \in oks, life \in lives : MirrorRefreshed(i, ok, life)
        \/ \E storeOk \in stores : MirrorPersist(i, storeOk)
        \/ \E status \in statuses, owner \in Athletes : MirrorActivity(i, status, owner, StartDate)
        \/ \E ok \in oks, streams \in sets : MirrorStreams(i, ok, streams)
        \/ \E ok \in oks : MirrorUpload(i, ok, 100 + i)
        \/ \E storeOk \in stores : MirrorInsert(i, storeOk)

NextMirror ==
    \/ AnyMirrorReceive(MirrorIds, MirrorRequests, BOOLEAN)
    \/ MirrorSteps(MirrorIds, {21600}, StreamSets, {200, 404, 500}, BOOLEAN, BOOLEAN)

SpecMirror == InitMirror /\ [][NextMirror]_vars

\* --- A linked user over time: mirror invocations that overlap each other, a
\* --- callback that links a role again, and deleted connections. The HUMAN
\* --- credential is due for a refresh, the PET credential is fresh.
InitLinked ==
    /\ env = EnvFull
    /\ now = 0
    /\ ticks = 0
    /\ issued = {}
    /\ authLast = AuthAnswer("", Undefined, Undefined, AuthError(0))
    /\ cb = [i \in CallbackIds |-> IdleCallback]
    /\ exchanges = {}
    /\ grants = <<1, 3>>
    /\ connections = {LinkedRow(1, HUMAN, 1, 300), LinkedRow(2, PET, 3, 21600)}
    /\ nextId = 3
    /\ \E m \in SUBSET {x \in AllMirrors : x.user_id = U1} : mirrors = m
    /\ mr = [i \in MirrorIds |-> IdleMirror]
    /\ connLast = NoConnectionsAnswer
    /\ cmp = IdleCompare

\* The caller comes back from the provider with the state value it was given.
LinkedCallback ==
    /\ cb[1].pc = "idle"
    /\ \E t \in issued, c \in Codes :
          CallbackReceive(1, "signed", Request("GET", JsStr(c), JsStr(t.state), Undefined),
                          Origin("asIssued", t.state))

\* A DELETE for a role the user has a connection for.
LinkedDelete ==
    \E role \in {HUMAN, PET} :
        /\ \E c \in connections : c.user_id = U1 /\ c.role = role
        /\ ConnectionsRequest("DELETE", Auth(TRUE, U1), JsStr(role), TRUE)

NextLinked ==
    \/ /\ issued = {}
       /\ Authorize(JsStr(HUMAN), JsStr(U1), <<255, 254>>, <<0>>)
    \/ LinkedCallback
    \/ CallbackSteps({1}, {21600}, {TRUE}, {TRUE})
    \/ AnyMirrorReceive(MirrorIds, {MirrorRequest("POST", Auth(TRUE, U1), ActivityUrl(7))},
                        BOOLEAN)
    \/ MirrorSteps(MirrorIds, {21600}, {Streams({"latlng", "time"}, << <<1, 2>> >>, <<0>>, <<>>)},
                   {200}, {TRUE}, {TRUE})
    \/ LinkedDelete

SpecLinked == InitLinked /\ [][NextLinked]_vars

\* --- The store under every kind of writer: callbacks, token refreshes and
\* --- mirror records of overlapping invocations, and deleted connections.
NextStore ==
    \/ \E r \in {HUMAN, PET} :
          /\ ~IssuedFor("signed", r)
          /\ Authorize(JsStr(r), JsStr(U1), <<255, 254>>, <<0>>)
    \/ AnyCallbackReceive(CallbackIds, {"signed"}, {"asIssued"}, {})
    \/ CallbackSteps(CallbackIds, {300}, {TRUE}, {TRUE})
    \/ AnyMirrorReceive(MirrorIds, {MirrorRequest("POST", Auth(TRUE, U1), ActivityUrl(7))}, {TRUE})
    \/ MirrorSteps(MirrorIds, {21600}, {Streams({"latlng", "time"}, << <<1, 2>> >>, <<0>>, <<>>)},
                   {200}, {TRUE}, {TRUE})
    \/ \E role \in {HUMAN, PET} :
          ConnectionsRequest("DELETE", Auth(TRUE, U1), JsStr(role), TRUE)

Spec == Init /\ [][NextStore]_vars


\* ---------------------------------------------------------------------------
\* Properties
\* ---------------------------------------------------------------------------
\* The payload an issued state value was built from, as JSON.parse returns it.
PayloadOf(t) ==
    [k \in {k_userId, k_role, k_exp, k_nonce, k_codeVerifier} |->
        IF k = k_userId THEN JsStr(t.userId)
        ELSE IF k = k_role THEN JsStr(t.role)
        ELSE IF k = k_exp THEN JsNum(t.exp)
        ELSE IF k = k_nonce THEN JsStr(t.nonce)
        ELSE JsStr(t.codeVerifier)]

\* The invocation c of the signed-state callback was given the issued state
\* value t as it was issued.
PresentedAsIssued(c, t) ==
    /\ c.pc # "idle"
    /\ c.handler = "signed"
    /\ t.handler = "signed"
    /\ c.origin = Origin("asIssued", t.state)

SentTokenRequest(i) == \E x \in exchanges : x.inv = i

\* C1: round trip of the state token. Every state value that authorization-start
\* issued (whatever the userId, a userId holding '.' included), presented
\* unchanged to the callback no later than its exp, is not rejected and decodes
\* to the payload it was built from: same userId, role, exp, nonce, codeVerifier.
C1_RoundTrip ==
    \A i \in CallbackIds : \A t \in issued :
        (PresentedAsIssued(cb[i], t) /\ cb[i].at <= t.exp)
            => /\ cb[i].verified
               /\ cb[i].statePayload = PayloadOf(t)
               /\ cb[i].resp # Redirect(q_invalid_state)

\* C2: any change to the signature segment of an issued state value makes the
\* callback reject it: the response is the invalid_state redirect, no token
\* request goes to the provider and nothing is written to the store.
C2_ChangedSignatureRejected ==
    \A i \in CallbackIds :
        (cb[i].pc # "idle" /\ cb[i].origin.kind \in SignatureChanges)
            => /\ cb[i].pc = "done"
               /\ cb[i].resp = Redirect(q_invalid_state)
               /\ ~SentTokenRequest(i)
               /\ ~cb[i].wrote

\* C4: a state value issued at time t carries exp = t + 600; presented
\* unchanged it is rejected (invalid_state, no token request) whenever the
\* current time is greater than exp, and accepted whenever it is not.
C4_ExpiryWindow ==
    \A t \in issued :
        t.handler = "signed" =>
            /\ t.exp = t.iat + 600
            /\ \A i \in CallbackIds :
                  PresentedAsIssued(cb[i], t) =>
                      /\ cb[i].at > t.exp =>
                            (cb[i].resp = Redirect(q_invalid_state) /\ ~SentTokenRequest(i))
                      /\ cb[i].at <= t.exp => cb[i].verified


\* The (userId, role, codeVerifier) triple of the invocation c is the one of an
\* issued state value that passed the signature and expiry checks.
FromVerifiedState(c) ==
    /\ c.verified
    /\ \E t \in issued :
          /\ t.handler = "signed"
          /\ c.userId = JsStr(t.userId)
          /\ c.role = JsStr(t.role)
          /\ c.codeVerifier = JsStr(t.codeVerifier)

\* C3: every token request a callback handler sends, and every connection it
\* writes, carries the (userId, role, codeVerifier) triple of a state value that
\* authorization-start issued and that passed the signature and expiry checks;
\* no value the caller chose for these fields reaches the provider or the store.
C3_TripleFromVerifiedState ==
    /\ \A x \in exchanges :
          /\ FromVerifiedState(cb[x.inv])
          /\ x.userId = cb[x.inv].userId
          /\ x.role = cb[x.inv].role
          /\ x.code_verifier = cb[x.inv].codeVerifier
    /\ \A i \in CallbackIds : cb[i].wrote => FromVerifiedState(cb[i])

\* The athlete of the invocation c is linked to c's user under the other role.
LinkedUnderOtherRole(c) ==
    \E r \in connections :
        /\ JsStr(r.user_id) = c.userId
        /\ r.athlete_id = c.tokenData.athlete
        /\ JsStr(r.role) # c.role

\* C5: when an athlete id is already linked to the user under one role, a
\* callback that tries to link it under the other role ends with the
\* athlete_role_conflict redirect carrying that athlete id and leaves the store
\* as it was, whichever role came first and also when callbacks overlap.
C5_RoleConflictAlways ==
    [][\A i \in CallbackIds :
          (/\ cb[i].pc \in {"lookup", "upsert"}
           /\ cb'[i].pc = "done"
           /\ LinkedUnderOtherRole(cb[i]))
              => /\ cb'[i].resp = Redirect(conflictQuery(cb[i]))
                 /\ connections' = connections]_vars

\* Substring test.
Contains(s, sub) ==
    \E k \in 1..(Len(s) - Len(sub) + 1) : SubSeq(s, k, k + Len(sub) - 1) = sub

p_error == <<101, 114, 114, 111, 114>>                                       \* "error"
p_athlete_id == <<97, 116, 104, 108, 101, 116, 101, 95, 105, 100>>            \* "athlete_id"
p_oauth_success == <<111, 97, 117, 116, 104, 95, 115, 117, 99, 99, 101, 115, 115>>  \* "oauth_success"
p_role == <<114, 111, 108, 101>>                                             \* "role"

\* The parameter names of the query of a redirect Location.
ParamNames(location) ==
    LET parts == split(location, 63)                       \* '?'
        params == IF Len(parts) < 2 THEN <<>> ELSE split(parts[2], 38)   \* '&'
    IN  {split(params[k], PAD)[1] : k \in 1..Len(params)}

\* Credential material the system holds: authorization codes, PKCE verifiers,
\* access and refresh credentials.
CredentialMaterial ==
    {cb[i].code.s : i \in {j \in CallbackIds : cb[j].code.t = "str"}}
        \cup {cb[i].codeVerifier.s : i \in {j \in CallbackIds : cb[j].codeVerifier.t = "str"}}
        \cup {t.codeVerifier : t \in issued}
        \cup {AccessToken(k) : k \in 1..Len(grants)}
        \cup {RefreshToken(k) : k \in 1..Len(grants)}

\* C10: no response of a callback handler exposes credential material: every
\* redirect Location is the application base URL with only the parameters
\* error, athlete_id, oauth_success and role, and holds neither the
\* authorization code, nor the PKCE verifier, nor an access or refresh credential.
C10_NoCredentialInRedirect ==
    \A i \in CallbackIds :
        cb[i].resp.status = 302 =>
            LET location == cb[i].resp.location IN
            /\ SubSeq(location, 1, Len(SUPABASE_URL) + 1) = SUPABASE_URL \o <<63>>
            /\ Len(split(location, 63)) = 2
            /\ ParamNames(location) \subseteq {p_error, p_athlete_id, p_oauth_success, p_role}
            /\ \A m \in CredentialMaterial : ~Contains(location, m)

\* Both kinds of redirect after the provider handed out credentials: a link
\* that succeeded and one refused for a role conflict.
C10_Witness ==
    \E i, j \in CallbackIds :
        /\ cb[i].resp = Redirect(successQuery(cb[i])) /\ cb[i].wrote
        /\ cb[j].resp = Redirect(conflictQuery(cb[j]))
        /\ cb[j].tokenData.access_token # <<>>


\* The invocation m got as far as a successful upload to the pet account.
Uploaded(m) == m.uploadId # 0

\* The invocation i was received after the invocation j had returned, for the
\* same user and the same source activity.
SecondCallAfter(i, j) ==
    /\ i # j
    /\ j \in mr[i].after
    /\ mr[j].user # <<>>
    /\ mr[i].user = mr[j].user
    /\ mr[i].activityId = mr[j].activityId

\* C7: when the mirror endpoint is called twice in sequence by one user for
\* one source activity and the first call returned success, the second call
\* returns the AlreadyMirrored error (400) with the mirror record of the first
\* call, and sends no upload request.
C7_SecondCallAlreadyMirrored ==
    \A i, j \in MirrorIds :
        (SecondCallAfter(i, j) /\ mr[j].resp.status = 200)
            => /\ mr[i].pc = "done"
               /\ mr[i].resp.status = 400
               /\ mr[i].resp.error = "Activity already mirrored"
               /\ mr[i].resp.mirror = mr[j].resp.mirror
               /\ "upload" \notin mr[i].calls

\* C8: over any interleaving of mirror invocations by one user for one source
\* activity, at most one upload of that activity to the pet account succeeds.
C8_AtMostOneUpload ==
    \A i, j \in MirrorIds :
        (/\ Uploaded(mr[i]) /\ Uploaded(mr[j])
         /\ mr[i].user = mr[j].user
         /\ mr[i].activityId = mr[j].activityId)
            => i = j

\* The activity the invocation m fetched belongs to another athlete than the
\* one of the HUMAN connection m loaded.
OwnershipMismatch(m) ==
    /\ m.activity # NoActivity
    /\ m.activity.athlete # m.humanConnection.athlete_id

\* C9: the pipeline sends an upload request only if the owner of the fetched
\* activity is the athlete of the user's HUMAN connection; when they differ the
\* response is 403, no streams are fetched, nothing is uploaded and no mirror
\* record is created.
C9_OwnershipChecked ==
    \A i \in MirrorIds :
        /\ "upload" \in mr[i].calls =>
              mr[i].activity.athlete = mr[i].humanConnection.athlete_id
        /\ OwnershipMismatch(mr[i]) =>
              /\ mr[i].pc = "done"
              /\ mr[i].resp.status = 403
              /\ mr[i].resp.error = "Activity does not belong to connected human account"
              /\ "streams" \notin mr[i].calls
              /\ "upload" \notin mr[i].calls
              /\ ~mr[i].inserted
              /\ \A r \in mirrors : ~(r.user_id = mr[i].user
                                       /\ r.source_activity_id = mr[i].activityId)
                                    \/ \E j \in MirrorIds : j # i /\ mr[j].inserted

\* One invocation was refused for an activity of another athlete while another
\* one, for an activity of the linked athlete, went on to upload.
C9_Witness ==
    \E i, j \in MirrorIds :
        /\ OwnershipMismatch(mr[i]) /\ mr[i].resp.status = 403
        /\ "upload" \in mr[j].calls /\ Uploaded(mr[j])


\* C6: in every reachable state, under any interleaving of callback,
\* token-refresh, connection-delete and mirror invocations, the store holds at
\* most one connection per (user, role), at most one connection per (user,
\* athlete id) and at most one mirror record per (user, source activity id).
C6_StoreUniqueness ==
    /\ UniqueUserRole(connections)
    /\ UniqueUserAthlete(connections)
    /\ UniqueMirror(mirrors)

\* Two callbacks of one user raced for one athlete under the two roles: one
\* wrote its connection, the store refused the other's.
C6_Witness ==
    \E i, j \in CallbackIds :
        /\ cb[i].wrote
        /\ cb[j].pc = "done" /\ cb[j].resp = Redirect(q_database_error)
        /\ cb[i].userId = cb[j].userId
        /\ cb[i].role # cb[j].role
        /\ cb[i].tokenData.athlete = cb[j].tokenData.athlete
        /\ \E r \in connections : r.athlete_id = cb[j].tokenData.athlete


\* The queries a callback redirect may carry.
CallbackQueries ==
    {q_oauth_denied, q_invalid_request, q_invalid_state, q_server_error,
     q_token_exchange_failed, q_database_error}
        \cup {q_athlete_role_conflict \o Digits(a) : a \in Athletes}
        \cup {q_oauth_success \o r : r \in {HUMAN, PET}}

IsCallbackRedirect(resp) ==
    /\ resp.status = 302
    /\ \E q \in CallbackQueries : resp.location = SUPABASE_URL \o q

\* C11 as stated: every invocation of the callback endpoint, whatever the
\* request method, the parameters present, the state, the configuration and
\* the answers of provider and store, responds 302 with a Location that is the
\* base URL followed by one of the eight status queries.
C11_AlwaysRedirect ==
    \A i \in CallbackIds : cb[i].pc = "done" => IsCallbackRedirect(cb[i].resp)

\* C11 amended: every invocation with a request method other than OPTIONS
\* responds 302 with a Location that is the base URL followed by one of the
\* eight status queries; an OPTIONS request is answered 200 without Location.
C11_RedirectUnlessPreflight ==
    \A i \in CallbackIds :
        cb[i].pc = "done" =>
            IF cb[i].req.method = "OPTIONS"
            THEN cb[i].resp = Response(200, <<>>)
            ELSE IsCallbackRedirect(cb[i].resp)

\* A preflight answered 200 next to an invocation that went as far as the
\* store write and was redirected with database_error.
C11_Witness ==
    \E i, j \in CallbackIds :
        /\ cb[i].pc = "done" /\ cb[i].req.method = "OPTIONS"
        /\ cb[i].resp = Response(200, <<>>)
        /\ cb[j].pc = "done" /\ cb[j].req.method = "GET"
        /\ cb[j].tokenData # NoTokenData
        /\ cb[j].resp = Redirect(q_database_error)


\* How a caller came by a state value that one of the sub-checks of the signed
\* callback refuses: not base64url, no '.' or an empty part, a signature that
\* does not fit the payload, a signed text that is not JSON.
Undecodable == {"garbage", "bare"}
Malformed == {"noDelimiter", "emptySignature", "emptyJson"}
WrongSignature == (SignatureChanges \ {"appendPart"}) \cup PayloadChanges \cup {"forged"}
Unparseable == {"signedJunk"}

\* The invocation c was given an issued state value, unchanged, after its exp.
PresentedExpired(c) ==
    \E t \in issued : PresentedAsIssued(c, t) /\ c.at > t.exp

RefusedState(c) ==
    \/ c.origin.kind \in Undecodable \cup Malformed \cup WrongSignature \cup Unparseable
    \/ PresentedExpired(c)

\* C12: with code and state present and the signing key configured, a state
\* that is not decodable, has no delimiter or an empty part, has a wrong
\* signature, has an unparseable payload or is expired gets the same response
\* in all five cases: the 302 redirect with error=invalid_state.
C12_OneInvalidStateAnswer ==
    \A i \in CallbackIds :
        (/\ cb[i].pc # "idle"
         /\ cb[i].handler = "signed"
         /\ Truthy(env.STATE_SECRET)
         /\ RefusedState(cb[i]))
            => /\ cb[i].pc = "done"
               /\ cb[i].resp = Redirect(q_invalid_state)

\* An expired state value, presented unchanged, got the invalid_state redirect.
C12_Witness ==
    \E i \in CallbackIds :
        /\ Truthy(env.STATE_SECRET)
        /\ PresentedExpired(cb[i])
        /\ cb[i].resp = Redirect(q_invalid_state)


\* The state value the invocation c was given is one its handler accepts: for
\* the signed-state callback a value the signed authorization start issued,
\* for the unsigned one any JSON text.
AcceptableState(c) ==
    IF c.handler = "signed"
    THEN \E t \in issued : PresentedAsIssued(c, t) /\ c.at <= t.exp
    ELSE \/ c.origin.kind = "bare"
         \/ \E t \in issued : t.handler = "legacy" /\ c.origin = Origin("asIssued", t.state)

\* The step the invocation i takes, against the order of the steps.
StepInOrder(i) ==
    LET c == cb[i]
        d == cb'[i]
        r == d.req
    IN  CASE c.pc = "idle" ->
               IF r.method = "OPTIONS" THEN d.pc = "done" /\ d.resp = Response(200, <<>>)
               ELSE IF Truthy(r.error)
                    THEN d.pc = "done" /\ d.resp = Redirect(q_oauth_denied)
               ELSE IF ~Truthy(r.code) \/ ~Truthy(r.state)
                    THEN d.pc = "done" /\ d.resp = Redirect(q_invalid_request)
               ELSE IF ~AcceptableState(d)
                    THEN /\ d.pc = "done"
                         /\ d.resp \in {Redirect(q_invalid_state), Redirect(q_server_error)}
               ELSE \/ d.pc = "exchange" /\ d.resp = NoResponse
                    \/ d.pc = "done" /\ d.resp = Redirect(q_server_error)
          [] c.pc = "exchange" ->
               \/ /\ d.pc = "lookup" /\ d.resp = NoResponse
                  /\ d.tokenData # NoTokenData
               \/ /\ d.pc = "done" /\ d.resp = Redirect(q_token_exchange_failed)
                  /\ d.tokenData = NoTokenData
          [] c.pc = "lookup" ->
               \/ d.pc = "upsert" /\ d.resp = NoResponse
               \/ /\ d.pc = "done"
                  /\ d.resp = Redirect(q_athlete_role_conflict \o Digits(c.tokenData.athlete))
                  /\ \E e \in connections :
                        /\ JsStr(e.user_id) = c.userId
                        /\ e.athlete_id = c.tokenData.athlete
                        /\ JsStr(e.role) # c.role
          [] c.pc = "upsert" ->
               /\ d.pc = "done"
               /\ \/ /\ d.resp = Redirect(q_database_error)
                     /\ connections' = connections
                  \/ /\ d.resp = Redirect(q_oauth_success \o c.role.s)
                     /\ c.tokenData # NoTokenData
                     /\ AcceptableState(c)
                     /\ \E e \in connections' :
                           /\ JsStr(e.user_id) = c.userId /\ JsStr(e.role) = c.role
                           /\ e.athlete_id = c.tokenData.athlete
                           /\ e.access_token = c.tokenData.access_token
          [] OTHER -> FALSE

\* C13: the callback's steps run in the fixed order provider-reported error,
\* missing code or state, state verification, token exchange, role conflict,
\* store write; the first failing step decides the redirect tag and ends the
\* invocation, no token request or store write follows a failed step, and the
\* success redirect comes only from the store write after all steps succeeded.
C13_StepOrder ==
    [][/\ \A i \in CallbackIds : cb'[i] # cb[i] => StepInOrder(i)
       /\ exchanges' # exchanges =>
             \E i \in CallbackIds : cb[i].pc = "idle" /\ cb'[i].pc = "exchange"
       /\ connections' # connections =>
             \E i \in CallbackIds :
                /\ cb[i].pc = "upsert"
                /\ cb'[i].resp = Redirect(q_oauth_success \o cb[i].role.s)]_vars

\* A request with the provider's error next to code and state was answered
\* oauth_denied, and another invocation went through all steps.
C13_Witness ==
    \E i, j \in CallbackIds :
        /\ cb[i].pc = "done"
        /\ Truthy(cb[i].req.error) /\ Truthy(cb[i].req.code) /\ Truthy(cb[i].req.state)
        /\ cb[i].resp = Redirect(q_oauth_denied)
        /\ cb[j].pc = "done" /\ cb[j].wrote
        /\ cb[j].resp = Redirect(q_oauth_success \o cb[j].role.s)


\* The preconditions of the mirror endpoint, judged on the request r and the
\* store as it is when the request arrives.
IsUnauthorized(r) == ~r.auth.header \/ r.auth.user = <<>>

IsInvalidActivityUrl(r) ==
    \/ r.activityUrl.t # "str"
    \/ matchActivity(r.activityUrl.s) = <<>>

IsAlreadyMirrored(r) ==
    \E x \in mirrors :
        /\ x.user_id = r.auth.user
        /\ x.source_activity_id = NumVal(matchActivity(r.activityUrl.s))

IsMissingConnection(user) ==
    \/ ~\E c \in connections : c.user_id = user /\ c.role = HUMAN
    \/ ~\E c \in connections : c.user_id = user /\ c.role = PET

\* The invocation ended with this error, having sent nothing to the provider.
HardStop(m, status, error) ==
    /\ m.pc = "done"
    /\ m.resp.status = status
    /\ m.resp.error = error
    /\ m.calls = {}

\* C14: the mirror endpoint's error is decided by the first failing
\* precondition in the order Unauthorized (401), InvalidActivityUrl (400),
\* AlreadyMirrored (400), MissingConnection (400); in each of the four cases
\* nothing is sent to the provider and the store is left unchanged.
C14_PreconditionOrder ==
    [][\A i \in MirrorIds :
          LET m == mr'[i]
              r == m.req
          IN  /\ (mr[i].pc = "idle" /\ m # mr[i] /\ r.method = "POST") =>
                    /\ connections' = connections /\ mirrors' = mirrors
                    /\ IF IsUnauthorized(r) THEN m.pc = "done" /\ m.resp.status = 401 /\ m.calls = {}
                       ELSE IF IsInvalidActivityUrl(r)
                            THEN HardStop(m, 400, "Invalid Strava activity URL")
                       ELSE IF IsAlreadyMirrored(r)
                            THEN HardStop(m, 400, "Activity already mirrored")
                       ELSE m.pc = "connections"
              /\ (mr[i].pc = "connections" /\ m # mr[i] /\ IsMissingConnection(mr[i].user)) =>
                    /\ connections' = connections /\ mirrors' = mirrors
                    /\ \/ HardStop(m, 400, "Both human and pet connections required")
                       \/ HardStop(m, 500, "Failed to fetch connections")]_vars


\* The connection the refresh helper was given by the invocation m.
RefreshedConnection(m) ==
    IF m.pc \in {"refreshHuman", "persistHuman"} THEN m.humanConnection ELSE m.petConnection

\* The row of that connection holds the values the provider returned.
Persisted(rows, id, t) ==
    \E r \in rows :
        /\ r.id = id
        /\ r.access_token = t.access_token
        /\ r.refresh_token = t.refresh_token
        /\ r.expires_at = t.expires_at

\* C15: the refresh helper, given a connection with expires_at greater than
\* now + 300, returns the stored access credential with no provider call and
\* no store write; otherwise it makes exactly one refresh call, and when that
\* call succeeds the new access, refresh and expiry values are persisted on the
\* connection before the new access credential is returned.
C15_RefreshHelper ==
    [][\A i \in MirrorIds :
          LET m == mr[i]
              d == mr'[i]
          IN  /\ (m.pc = "connections" /\ d.pc \notin {"connections", "done"}) =>
                    IF d.humanConnection.expires_at > now + 300
                    THEN /\ d.humanToken = d.humanConnection.access_token
                         /\ "refreshHuman" \notin d.calls
                         /\ connections' = connections /\ grants' = grants
                    ELSE d.pc = "refreshHuman" /\ grants' = grants
              /\ (m.pc \in {"connections", "persistHuman"} /\ d.pc \in {"activity", "refreshPet"}) =>
                    IF d.petConnection.expires_at > now + 300
                    THEN /\ d.pc = "activity"
                         /\ d.petToken = d.petConnection.access_token
                         /\ "refreshPet" \notin d.calls
                         /\ grants' = grants
                    ELSE d.pc = "refreshPet" /\ grants' = grants
              /\ (m.pc \in {"refreshHuman", "refreshPet"} /\ d.pc \in {"persistHuman", "persistPet"}) =>
                    /\ Len(grants') = Len(grants) + 1
                    /\ connections' = connections
              /\ (m.pc \in {"persistHuman", "persistPet"} /\ d # m) =>
                    /\ grants' = grants
                    /\ Persisted(connections', RefreshedConnection(m).id, m.refreshed)
                    /\ IF m.pc = "persistHuman"
                       THEN d.humanToken = m.refreshed.access_token
                       ELSE d.petToken = m.refreshed.access_token]_vars


\* The step of the invocation i is a refresh call the provider refused.
RefreshRefused(i) ==
    /\ mr[i].pc \in {"refreshHuman", "refreshPet"}
    /\ mr'[i] # mr[i]
    /\ grants' = grants

\* C16: when the provider answers a token-refresh call for either connection
\* with a non-success response, the mirror invocation ends with a 500 response,
\* the refresh is not retried, and the invocation fetches no activity and no
\* streams, uploads nothing and creates no mirror record.
C16_RefreshFailureAborts ==
    [][\A i \in MirrorIds :
          /\ RefreshRefused(i) =>
                /\ mr'[i].pc = "done"
                /\ mr'[i].resp.status = 500
                /\ mr'[i].calls \cap {"activity", "streams", "upload"} = {}
                /\ ~mr'[i].inserted
                /\ mr'[i].uploadId = 0
                /\ mirrors' = mirrors /\ connections' = connections
          /\ mr[i].pc = "done" => mr'[i] = mr[i]]_vars

\* The refresh for the pet connection was refused after the one for the human
\* connection went through, and the invocation ended with 500.
C16_Witness ==
    \E i \in MirrorIds :
        /\ mr[i].pc = "done"
        /\ mr[i].resp.status = 500
        /\ {"refreshHuman", "refreshPet"} \subseteq mr[i].calls
        /\ "activity" \notin mr[i].calls
        /\ mr[i].humanToken # <<>>


w_read == <<114, 101, 97, 100>>                                               \* "read"
w_write == <<119, 114, 105, 116, 101>>                                        \* "write"

\* C17: in authorization-start role=HUMAN yields exactly the read scopes
\* 'read,activity:read,activity:read_all' and no write scope, role=PET yields
\* exactly 'activity:write' and no read scope, and any other role value, a
\* missing role or a missing userId yields 400 with no authorization URL and no
\* state token.
C17_ScopeSelection ==
    LET a == authLast.answer IN
    authLast.handler # "" =>
        IF Truthy(authLast.userId) /\ authLast.role = JsStr(HUMAN)
        THEN a.status = 200 => a.scope = read_scopes /\ ~Contains(a.scope, w_write)
        ELSE IF Truthy(authLast.userId) /\ authLast.role = JsStr(PET)
        THEN a.status = 200 => a.scope = write_scope /\ ~Contains(a.scope, w_read)
        ELSE /\ a.status = 400 /\ ~a.ok
             /\ a.state = <<>> /\ a.scope = <<>>
             /\ issued = {}

\* An authorization URL for the PET role was handed out.
C17_Witness ==
    /\ authLast.handler = "signed"
    /\ authLast.role = JsStr(PET)
    /\ authLast.answer.status = 200
    /\ authLast.answer.scope = write_scope


w_S256 == <<83, 50, 53, 54>>                                                  \* "S256"

\* The callback invocation c of the same deployment was given the state of the
\* last authorization URL, unchanged and in time, and had what it needs to go
\* on to the token exchange.
GivenLastState(c) ==
    /\ c.pc # "idle"
    /\ c.handler = authLast.handler
    /\ c.origin = Origin("asIssued", authLast.answer.state)
    /\ Truthy(env.STRAVA_CLIENT_SECRET)
    /\ \A t \in issued : (t.handler = "signed" /\ t.state = authLast.answer.state) => c.at <= t.exp

\* C18: for every accepted authorization-start request (role R, userId U) the
\* authorization URL carries code_challenge_method=S256, a state that the
\* callback decodes to a payload with userId U and role R, and a code_challenge
\* that is the S256 digest of the code verifier embedded in that state.
C18_AuthUrlDecodes ==
    LET a == authLast.answer IN
    a.status = 200 =>
        /\ a.code_challenge_method = w_S256
        /\ \A i \in CallbackIds :
              GivenLastState(cb[i]) =>
                  /\ cb[i].userId = authLast.userId
                  /\ cb[i].role = authLast.role
                  /\ Truthy(cb[i].codeVerifier)
                  /\ a.code_challenge = base64urlEncode(sha256(TextEncode(cb[i].codeVerifier.s)))


\* The callback invocations that were given the issued state value t, passed
\* the state verification and sent a token request.
ConsumersOf(t) ==
    {i \in CallbackIds : PresentedAsIssued(cb[i], t) /\ cb[i].verified /\ SentTokenRequest(i)}

\* C19: each issued state token is consumed exactly once: at most one callback
\* invocation presenting it passes state verification and proceeds to the
\* token exchange, and a later callback presenting the same token within its
\* validity window is rejected.
C19_StateConsumedOnce ==
    \A t \in issued :
        /\ Cardinality(ConsumersOf(t)) <= 1
        /\ \A i, j \in CallbackIds :
              (i \in ConsumersOf(t) /\ j # i /\ PresentedAsIssued(cb[j], t) /\ cb[j].at <= t.exp)
                  => cb[j].resp = Redirect(q_invalid_state)


\* The invocation m generated a track log and went on to the upload.
GeneratedGpx(m) == "upload" \in m.calls

\* C20: for an activity with N latitude/longitude samples and a time series of
\* the same length the generated track log has exactly N points in sample
\* order, the i-th point has the i-th latitude and longitude and the timestamp
\* start time + time[i] seconds, and with no altitude stream no point carries
\* an elevation.
C20_TrackLog ==
    \A i \in MirrorIds :
        LET m == mr[i]
            N == Len(m.streams.latlng)
        IN  (GeneratedGpx(m) /\ Len(m.streams.time) = N) =>
                /\ Len(m.gpx) = N
                /\ \A k \in 1..N :
                      /\ m.gpx[k].lat = m.streams.latlng[k][1]
                      /\ m.gpx[k].lon = m.streams.latlng[k][2]
                      /\ m.gpx[k].time = JsNum(m.activity.start_date + m.streams.time[k])
                      /\ "altitude" \notin m.streams.has => m.gpx[k].ele = "null"

\* A track log of three points without elevation was generated.
C20_Witness ==
    \E i \in MirrorIds :
        /\ GeneratedGpx(mr[i])
        /\ Len(mr[i].streams.latlng) = 3 /\ Len(mr[i].streams.time) = 3
        /\ "altitude" \notin mr[i].streams.has
        /\ Len(mr[i].gpx) = 3
        /\ mr[i].gpx[3].time = JsNum(StartDate + 3)


\* Stream types that are performance metrics.
PerformanceMetrics == {"heartrate", "cadence", "watts"}

\* C21: the mirror pipeline never requests or forwards performance metrics:
\* the only stream keys it requests are latlng, time and altitude, and every
\* point of the uploaded track log carries only latitude, longitude, timestamp
\* and optionally elevation.
C21_NoPerformanceMetrics ==
    \A i \in MirrorIds :
        /\ mr[i].keys \subseteq {"latlng", "time", "altitude"}
        /\ "streams" \in mr[i].calls => mr[i].keys = {"latlng", "time", "altitude"}
        /\ mr[i].streams.has \cap PerformanceMetrics = {}
        /\ GeneratedGpx(mr[i]) =>
              \A k \in 1..Len(mr[i].gpx) : DOMAIN mr[i].gpx[k] = {"lat", "lon", "time", "ele"}

\* An activity that has a heart-rate stream was turned into a track log with
\* the elevation of its altitude stream.
C21_Witness ==
    \E i \in MirrorIds :
        /\ GeneratedGpx(mr[i])
        /\ mr[i].keys = {"latlng", "time", "altitude"}
        /\ mr[i].streams.altitude = <<7>>
        /\ mr[i].gpx[1].ele = "7"


\* The access and refresh credentials the store holds.
StoredCredentials ==
    {c.access_token : c \in connections} \cup {c.refresh_token : c \in connections}

\* C22: the GET response of the connections endpoint contains only connections
\* whose user is the authenticated caller, and for none of them the access or
\* the refresh credential; a request without a verifiable bearer credential
\* gets 401 and no connection data.
C22_ListOwnWithoutCredentials ==
    connLast.method = "GET" =>
        IF ~connLast.auth.header \/ connLast.auth.user = <<>>
        THEN connLast.resp.status = 401 /\ connLast.resp.body = {}
        ELSE \A c \in connLast.resp.body :
                /\ \E x \in connections : x.id = c.id /\ x.user_id = connLast.auth.user
                /\ DOMAIN c \subseteq {"id", "role", "athlete_id", "expires_at"}
                /\ c.role \notin StoredCredentials

\* The caller got both of its connections while the store holds another user's.
C22_Witness ==
    /\ connLast.method = "GET"
    /\ connLast.auth = Auth(TRUE, U1)
    /\ connLast.resp.status = 200
    /\ Cardinality(connLast.resp.body) = 2
    /\ \E x \in connections : x.user_id = U2


\* How a caller came by a state value whose decoded string does not split on
\* '.' into exactly two non-empty parts.
NotTwoParts == Malformed \cup {"appendPart"}

\* C23: the callback rejects with invalid_state every decoded state string
\* that does not split on '.' into exactly two non-empty parts; a valid token
\* with '.x' appended is rejected and never reaches the token exchange.
C23_ExactlyTwoParts ==
    \A i \in CallbackIds :
        (/\ cb[i].pc # "idle"
         /\ cb[i].handler = "signed"
         /\ Truthy(env.STATE_SECRET)
         /\ cb[i].origin.kind \in NotTwoParts)
            => /\ cb[i].pc = "done"
               /\ cb[i].resp = Redirect(q_invalid_state)
               /\ ~SentTokenRequest(i)


\* The queries of the error redirects.
ErrorQueries ==
    {q_oauth_denied, q_invalid_request, q_invalid_state, q_server_error,
     q_token_exchange_failed, q_database_error}
        \cup {q_athlete_role_conflict \o Digits(a) : a \in Athletes}

IsErrorRedirect(resp) == \E q \in ErrorQueries : resp = Redirect(q)

\* C24: a callback invocation that ends in an error redirect leaves the
\* connections store as it was: none of its steps writes, the step that ends
\* it included; a valid state with a non-success token-exchange response gives
\* error=token_exchange_failed before any store read or write.
C24_ErrorLeavesStore ==
    [][\A i \in CallbackIds :
          /\ (cb[i].pc \in {"idle", "exchange", "lookup"} /\ cb'[i] # cb[i]) =>
                connections' = connections
          /\ (cb[i].pc # "done" /\ cb'[i].pc = "done" /\ IsErrorRedirect(cb'[i].resp)) =>
                /\ connections' = connections
                /\ ~cb'[i].wrote
                /\ cb'[i].resp = Redirect(q_token_exchange_failed) =>
                      cb[i].pc = "exchange" /\ AcceptableState(cb[i])]_vars

\* An invocation for a role that is linked already ended with database_error
\* and the link is still there.
C24_Witness ==
    \E i \in CallbackIds :
        /\ cb[i].pc = "done"
        /\ cb[i].resp = Redirect(q_database_error)
        /\ \E r \in connections : JsStr(r.user_id) = cb[i].userId /\ JsStr(r.role) = cb[i].role


\* The (user, role, athlete id) links the store holds.
Links(rows) ==
    {[user_id |-> r.user_id, role |-> r.role, athlete_id |-> r.athlete_id] : r \in rows}

\* The invocations i and j were both given the issued state value t and are
\* both over, and the provider named one athlete to those it answered.
InvokedTwice(i, j, t) ==
    /\ i # j
    /\ PresentedAsIssued(cb[i], t) /\ PresentedAsIssued(cb[j], t)
    /\ cb[i].pc = "done" /\ cb[j].pc = "done"
    /\ cb[i].wrote
    /\ cb[j].tokenData # NoTokenData => cb[j].tokenData.athlete = cb[i].tokenData.athlete

\* C25: the callback is idempotent per state token: invoked twice with the
\* same valid, unexpired state token, the provider giving the same athlete,
\* it leaves the store with the (user, role, athlete id) links one invocation
\* leaves, and exactly one connection for that (user, role).
C25_IdempotentPerToken ==
    \A t \in issued : \A i, j \in CallbackIds :
        InvokedTwice(i, j, t) =>
            /\ Links(connections) =
                  {[user_id |-> t.userId, role |-> t.role,
                    athlete_id |-> cb[i].tokenData.athlete]}
            /\ Cardinality({r \in connections : r.user_id = t.userId /\ r.role = t.role}) = 1

\* Both invocations for one state token went through to the store write.
C25_Witness ==
    \E t \in issued : \E i, j \in CallbackIds :
        /\ InvokedTwice(i, j, t)
        /\ cb[j].wrote
        /\ Cardinality(connections) = 1


\* The rows of the connection the invocation c is about.
RowsOf(rows, c) == {r \in rows : JsStr(r.user_id) = c.userId /\ JsStr(r.role) = c.role}

\* The step of the invocation i is a store write followed by the success
\* redirect.
SucceededStep(i) ==
    /\ cb[i].pc = "upsert"
    /\ cb'[i].pc = "done"
    /\ cb'[i].resp = Redirect(q_oauth_success \o cb[i].role.s)

\* C26: a successful callback for (user U, role R) leaves exactly one
\* connection for (U, R), holding the athlete id and the access, refresh and
\* expiry values of this token exchange in place of any earlier connection of
\* (U, R), and leaves U's connection for the other role and every other user's
\* connections unchanged.
C26_SuccessReplacesOne ==
    [][\A i \in CallbackIds :
          SucceededStep(i) =>
              /\ Cardinality(RowsOf(connections', cb[i])) = 1
              /\ \A r \in RowsOf(connections', cb[i]) :
                    /\ r.athlete_id = cb[i].tokenData.athlete
                    /\ r.access_token = cb[i].tokenData.access_token
                    /\ r.refresh_token = cb[i].tokenData.refresh_token
                    /\ r.expires_at = cb[i].tokenData.expires_at
              /\ connections' \ RowsOf(connections', cb[i])
                    = connections \ RowsOf(connections, cb[i])]_vars

\* A callback replaced the earlier connection of its (user, role) by one for
\* another athlete while the store holds a connection of another user.
C26_Witness ==
    \E i \in CallbackIds :
        /\ cb[i].pc = "done" /\ cb[i].wrote
        /\ \E r \in RowsOf(connections, cb[i]) :
              /\ r.id < 4
              /\ r.athlete_id = cb[i].tokenData.athlete
              /\ r.access_token = cb[i].tokenData.access_token
              /\ r.access_token # AccessToken(r.id)
        /\ \E x \in connections : x.user_id = U2


\* The step of the invocation i is an insert of the mirror record that failed.
InsertFailed(i) ==
    /\ mr[i].pc = "insert"
    /\ mr'[i] # mr[i]
    /\ mirrors' = mirrors

\* C27: when the upload to the pet account succeeded and the insertion of the
\* mirror record then fails, the mirror endpoint still answers 200 with the
\* success body (no error) and the upload's id.
C27_InsertFailureNotFatal ==
    [][\A i \in MirrorIds :
          InsertFailed(i) =>
              /\ mr'[i].pc = "done"
              /\ mr'[i].resp.status = 200
              /\ mr'[i].resp.error = ""
              /\ mr'[i].resp.uploadId = mr[i].uploadId
              /\ mr[i].uploadId # 0]_vars

\* An invocation whose insert failed answered 200 with the upload's id.
C27_Witness ==
    \E i \in MirrorIds :
        /\ mr[i].pc = "done"
        /\ mr[i].uploadId # 0
        /\ ~mr[i].inserted
        /\ mr[i].resp.status = 200
        /\ mr[i].resp.uploadId = mr[i].uploadId
        /\ mr[i].resp.mirror = NoMirror


\* C28: every mirror record has status PENDING: no operation writes a mirror
\* record with status DONE or ERROR or changes the status of an existing
\* record.
C28_OnlyPending ==
    [][/\ \A x \in mirrors' : x.status = "PENDING"
       /\ \A x \in mirrors : x \in mirrors']_vars

\* Two mirror records were written.
C28_Witness ==
    /\ Cardinality(mirrors) = 2
    /\ \A x \in mirrors : x.status = "PENDING"


\* The invocation m holds the success response of an upload of its activity
\* to the pet account of its user.
UploadSucceeded(m) ==
    /\ "upload" \in m.calls
    /\ m.uploadId # 0
    /\ m.petConnection.user_id = m.user
    /\ m.petConnection.role = PET
    /\ m.petToken # <<>>

\* C29: a mirror record is created only after the upload's success is known:
\* every mirror record for (user, source activity id) is written by an
\* invocation for that user and activity that has received the success
\* response of its upload to the user's pet account.
C29_RecordAfterUpload ==
    [][\A x \in mirrors' \ mirrors :
          \E i \in MirrorIds :
             /\ mr[i].pc = "insert"
             /\ UploadSucceeded(mr[i])
             /\ x.user_id = mr[i].user
             /\ x.source_activity_id = mr[i].activityId
             /\ mr'[i].resp.mirror = x]_vars

\* A mirror record stands next to the invocation that uploaded and wrote it.
C29_Witness ==
    \E x \in mirrors : \E i \in MirrorIds :
        /\ mr[i].inserted
        /\ mr[i].resp.mirror = x
        /\ UploadSucceeded(mr[i])


\* The row d is the row r with at most its two credentials and expiry changed.
SameButTokens(r, d) ==
    d = [r EXCEPT !.access_token = d.access_token,
                  !.refresh_token = d.refresh_token,
                  !.expires_at = d.expires_at]

IssuedFor_athlete(t, c) ==
    /\ t # <<>>
    /\ GrantOf(t) \in 1..Len(grants)
    /\ grants[GrantOf(t)] = c.athlete_id

\* C31: within a mirror invocation the activity fetch and the streams fetch
\* carry only the access credential the refresh helper returned for the HUMAN
\* connection, and the upload carries only the one it returned for the PET
\* connection; the human credential never uploads, the pet credential never
\* fetches.
C31_CredentialPerCall ==
    \A i \in MirrorIds :
        LET m == mr[i] IN
        /\ "activity" \in m.calls =>
              /\ m.bearer.activity = m.humanToken
              /\ m.bearer.activity # m.petToken
              /\ m.humanConnection.role = HUMAN
              /\ IssuedFor_athlete(m.bearer.activity, m.humanConnection)
        /\ "streams" \in m.calls =>
              /\ m.bearer.streams = m.humanToken
              /\ m.bearer.streams # m.petToken
              /\ IssuedFor_athlete(m.bearer.streams, m.humanConnection)
        /\ "upload" \in m.calls =>
              /\ m.bearer.upload = m.petToken
              /\ m.bearer.upload # m.humanToken
              /\ m.petConnection.role = PET
              /\ IssuedFor_athlete(m.bearer.upload, m.petConnection)

\* An invocation that refreshed both credentials has fetched and uploaded.
C31_Witness ==
    \E i \in MirrorIds :
        /\ {"refreshHuman", "refreshPet", "activity", "streams", "upload"} \subseteq mr[i].calls
        /\ mr[i].uploadId # 0
        /\ mr[i].bearer.upload # mr[i].petConnection.access_token
        /\ mr[i].bearer.activity # mr[i].humanConnection.access_token


\* C32: every authenticated mirror request whose body does not supply an
\* activity reference of the form /activities/<digits>, a body without an
\* activityUrl field or with a non-string activityUrl included, is answered
\* with the InvalidActivityUrl error (400), with no store access and no
\* provider call.
C32_InvalidReferenceIs400 ==
    [][\A i \in MirrorIds :
          LET m == mr'[i]
              r == m.req
          IN  (/\ mr[i].pc = "idle" /\ m # mr[i]
               /\ r.method = "POST"
               /\ ~IsUnauthorized(r)
               /\ IsInvalidActivityUrl(r)) =>
                 /\ HardStop(m, 400, "Invalid Strava activity URL")
                 /\ connections' = connections /\ mirrors' = mirrors]_vars

\* The same for the requests whose activityUrl is a string.
C32_InvalidStringIs400 ==
    [][\A i \in MirrorIds :
          LET m == mr'[i]
              r == m.req
          IN  (/\ mr[i].pc = "idle" /\ m # mr[i]
               /\ r.method = "POST"
               /\ ~IsUnauthorized(r)
               /\ r.activityUrl.t = "str"
               /\ IsInvalidActivityUrl(r)) =>
                 /\ HardStop(m, 400, "Invalid Strava activity URL")
                 /\ connections' = connections /\ mirrors' = mirrors]_vars


\* The point p of a track log carries an <ele> element (lines 313-316: the
\* element is written whenever ele is not null).
HasElevation(p) == p.ele # "null"

\* C33: elevation is emitted per point only when available: the k-th point of
\* the generated track log carries an elevation element if and only if the
\* altitude stream is present and supplies a value at index k.
C33_ElevationWhenAvailable ==
    \A i \in MirrorIds :
        LET m == mr[i] IN
        GeneratedGpx(m) =>
            \A k \in 1..Len(m.gpx) :
                HasElevation(m.gpx[k]) <=>
                    ("altitude" \in m.streams.has /\ k <= Len(m.streams.altitude))

\* The same for altitude streams as long as the latitude/longitude stream.
C33_ElevationOfFullStream ==
    \A i \in MirrorIds :
        LET m == mr[i] IN
        (GeneratedGpx(m) /\ ("altitude" \in m.streams.has =>
                                Len(m.streams.altitude) >= Len(m.streams.latlng))) =>
            \A k \in 1..Len(m.gpx) :
                HasElevation(m.gpx[k]) <=> "altitude" \in m.streams.has


\* The request the endpoint answered last came with a verified bearer.
Authenticated(a) == a.auth.header /\ a.auth.user # <<>>

\* C34: DELETE with role R by the authenticated user U removes only U's
\* connection for role R: U's connection for the other role, every other
\* user's connections and all mirror records are unchanged; a missing or
\* non-enumerated role yields 400 and changes nothing.
C34_DeleteOnlyOwnRole ==
    [][LET a == connLast' IN
       (a.method = "DELETE" /\ Authenticated(a)) =>
          /\ mirrors' = mirrors
          /\ IF Truthy(a.role) /\ a.role.s \in {HUMAN, PET}
             THEN /\ \A c \in connections :
                        (c.user_id # a.auth.user \/ c.role # a.role.s) => c \in connections'
                  /\ connections' \subseteq connections
                  /\ a.resp.status = 200 =>
                        ~\E c \in connections' : c.user_id = a.auth.user /\ c.role = a.role.s
             ELSE a.resp.status = 400 /\ connections' = connections]_vars

\* A DELETE removed the caller's HUMAN connection next to the caller's PET
\* connection, another user's connections and mirror records.
C34_Witness ==
    /\ connLast.method = "DELETE"
    /\ connLast.auth = Auth(TRUE, U1)
    /\ connLast.role = JsStr(HUMAN)
    /\ connLast.resp.status = 200
    /\ connLast.deleted = 1
    /\ \E c \in connections : c.user_id = U1 /\ c.role = PET
    /\ \E c \in connections : c.user_id = U2 /\ c.role = HUMAN
    /\ mirrors = AllMirrors


\* The arrays hold the same bytes: same length, same byte at every position.
SameBytes(a, b) ==
    /\ Len(a) = Len(b)
    /\ \A k \in 1..Len(a) : a[k] = b[k]

\* C35: constantTimeEqual(a, b) returns true if and only if a and b have the
\* same length and the same byte at every position; when the lengths are equal
\* it examines every byte position before returning, whatever the position of
\* the first differing byte.
C35_ConstantTimeEqual ==
    cmp.pc = "done" =>
        /\ cmp.ret <=> SameBytes(cmp.a, cmp.b)
        /\ cmp.ret = constantTimeEqual(cmp.a, cmp.b)
        /\ Len(cmp.a) = Len(cmp.b) => cmp.examined = 1..Len(cmp.a)

\* Arrays of the greatest length that differ in the first byte only were
\* compared to the end.
C35_Witness ==
    /\ cmp.pc = "done"
    /\ Len(cmp.a) = MaxCompareLen /\ Len(cmp.b) = MaxCompareLen
    /\ cmp.a[1] # cmp.b[1]
    /\ \A k \in 2..MaxCompareLen : cmp.a[k] = cmp.b[k]
    /\ ~cmp.ret
    /\ cmp.examined = 1..MaxCompareLen


\* The invocation m ended with an error response.
EndedInError(m) == m.pc = "done" /\ m.resp.status # 200

C37_CredentialsOfStoredAthlete ==
    \A r \in connections :
        /\ IssuedFor_athlete(r.access_token, r)
        /\ IssuedFor_athlete(r.refresh_token, r)

\* The same while no token-refresh run holds a connection that a callback has
\* changed since the run read it.
C37_CredentialsWithoutStaleRun ==
    (\A i \in MirrorIds :
        mr[i].refreshed # NoTokenData =>
            \A r \in connections :
                r.id = mr[i].humanConnection.id => r.athlete_id = mr[i].humanConnection.athlete_id)
        => C37_CredentialsOfStoredAthlete


\* The last credential pair the provider issued for the athlete.
LatestGrant(athlete) ==
    CHOOSE k \in 1..Len(grants) :
        /\ grants[k] = athlete
        /\ \A j \in 1..Len(grants) : grants[j] = athlete => j <= k

\* No token-refresh run and no callback holds a credential it has yet to store.
NothingToStore ==
    /\ \A i \in MirrorIds :
          mr[i].pc \notin {"refreshHuman", "persistHuman", "refreshPet", "persistPet"}
    /\ \A i \in CallbackIds : cb[i].pc \notin {"lookup", "upsert"}

\* C38: after any interleaving of two or more token-refresh runs on the same
\* connection the refresh credential stored on the connection is the one the
\* provider issued for it most recently, so that a later refresh is not made
\* with a credential the provider has already replaced.
C38_StoredRefreshIsLatest ==
    NothingToStore =>
        \A r \in connections :
            IssuedFor_athlete(r.refresh_token, r) =>
                GrantOf(r.refresh_token) = LatestGrant(r.athlete_id)


\* The user has a connection for the role.
HasConnection(rows, user, role) == \E c \in rows : c.user_id = user /\ c.role = role

\* A role of u1 that has no connection gets one only by the store write of a
\* successful callback.
LinkedOnlyByCallback ==
    \A role \in {HUMAN, PET} :
        (~HasConnection(connections, U1, role) /\ HasConnection(connections', U1, role)) =>
            \E j \in CallbackIds :
                /\ cb[j].pc = "upsert" /\ cb'[j].wrote
                /\ cb[j].role = JsStr(role)

\* A mirror invocation that looks for the connections while one is missing
\* stops with MissingConnection, having sent nothing to the provider.
MissingStopsMirror ==
    \A i \in MirrorIds :
        (/\ mr[i].pc = "connections" /\ mr'[i] # mr[i]
         /\ IsMissingConnection(mr[i].user)) =>
            /\ HardStop(mr'[i], 400, "Both human and pet connections required")
            /\ mr'[i].uploadId = 0

\* While a connection is missing, a mirror request for an activity the user
\* has a mirror record of stops with AlreadyMirrored.
MirroredStopsMirror ==
    \A i \in MirrorIds :
        LET r == mr'[i].req IN
        (/\ mr[i].pc = "idle" /\ mr'[i] # mr[i]
         /\ r.method = "POST" /\ ~IsUnauthorized(r) /\ ~IsInvalidActivityUrl(r)
         /\ IsMissingConnection(r.auth.user)
         /\ IsAlreadyMirrored(r)) =>
            HardStop(mr'[i], 400, "Activity already mirrored")

\* C39: after a user's HUMAN or PET connection has been deleted, every later
\* mirror request by that user for an activity not mirrored yet returns the
\* MissingConnection error (400) with no upload, until a successful callback
\* links that role again; mirror requests for an activity already mirrored
\* keep returning AlreadyMirrored.
C39_MissingUntilLinkedAgain ==
    [][LinkedOnlyByCallback /\ MissingStopsMirror /\ MirroredStopsMirror]_vars

\* The same without the requests for an activity already mirrored.
C39_MissingConnectionPart ==
    [][LinkedOnlyByCallback /\ MissingStopsMirror]_vars

\* A deleted HUMAN connection, a mirror request answered MissingConnection,
\* then a callback that has linked the role again.
C39_Answered ==
    /\ connLast.method = "DELETE" /\ connLast.deleted = 1
    /\ \E i \in MirrorIds : HardStop(mr[i], 400, "Both human and pet connections required")
    /\ \E j \in CallbackIds : cb[j].wrote
    /\ HasConnection(connections, U1, HUMAN)

====
